---------------------------- MODULE Spec2Model ----------------------------
(***************************************************************************)
(* Billy: the file-ingestion and processing-orchestration pipeline.        *)
(*                                                                         *)
(*   services/processor.rs   process_invoice, mark_failed, apply_extracted *)
(*   services/state.rs       handle_event (dispatch loop), scan_folder     *)
(*   services/watcher.rs     create_watcher callback, debounce_file_event  *)
(*   db/mod.rs               upsert_invoice, get_invoice_by_path, ...      *)
(*   commands/invoices.rs    reprocess_invoice                             *)
(*                                                                         *)
(* Every processing task is a small state machine whose steps are the      *)
(* points at which process_invoice reads or writes shared state (the file  *)
(* system and the store); the store lock is held only inside one step.     *)
(***************************************************************************)
EXTENDS Integers, Sequences, FiniteSets, TLC

(***************************************************************************)
(* Bounds of the model.                                                    *)
(***************************************************************************)
\* processing tasks spawned in one behaviour
MaxTasks == 2
\* file-system operations (create / modify / delete) in one behaviour
MaxFsOps == 1
\* file contents are 1..MaxContent
MaxContent == 2
\* modification times are 1..MaxMtime
MaxMtime == 2
\* failures of the collaborators (file reads, store, OCR, keychain, remote
\* extraction) injected in one behaviour
MaxFaults == 1
\* writes and removals of one burst of file-system activity
MaxChunks == 3
\* calls of update_settings and restart_watchers in one behaviour
MaxCalls == 2

(***************************************************************************)
(* Option values.                                                          *)
(***************************************************************************)
None == << >>

Some(x) == << x >>

IsSome(o) == o # None

Unwrap(o) == o[1]

(***************************************************************************)
(* Paths. GoodPath is valid UTF-8; RawPath holds a byte that is not, so    *)
(* Path::to_str gives None for it and to_string_lossy replaces the byte    *)
(* by U+FFFD (LossyName, which names no file of the watched folders).      *)
(***************************************************************************)
GoodPath == "revenue/a.pdf"

RawPath == "payable/b\\xFF.pdf"

LossyName == "payable/b\\uFFFD.pdf"

Paths == {GoodPath, RawPath}

to_str(p) == IF p = RawPath THEN None ELSE Some(p)

to_string_lossy(p) == IF p = RawPath THEN LossyName ELSE p

\* the category of the watched folder a file lies in
FolderCategory(p) == IF p = GoodPath THEN "revenue" ELSE "payable"

Folders == {"revenue", "payable"}

\* Path::parent of a watched file
FolderOf(p) == IF p = GoodPath THEN "revenue" ELSE "payable"

\* a directory entry: its path, the directory it lies in, whether it is a
\* regular file or a directory, and Path::extension
Entry(path, parent, kind, ext) == [path |-> path, parent |-> parent, kind |-> kind, ext |-> ext]

\* entries a folder may hold besides the watched files
OtherEntries ==
    { Entry("revenue/c.PDF", "revenue", "file", << "PDF" >>),
      Entry("revenue/notes.txt", "revenue", "file", << "txt" >>),
      Entry("revenue/sub", "revenue", "dir", << >>),
      Entry("revenue/sub/d.pdf", "revenue/sub", "file", << "pdf" >>),
      Entry("payable/dir.pdf", "payable", "dir", << "pdf" >>),
      Entry("payable/README", "payable", "file", << >>) }

\* str::eq_ignore_ascii_case compares the ASCII lower-case forms
to_ascii_lowercase(x) == IF x \in {"PDF", "Pdf", "pDf"} THEN "pdf" ELSE x

\* a variant that compares the extension as it is written
is_pdf_exact(e) == e.ext = << "pdf" >>

\* is_pdf(path): the extension is there and is pdf in any case
is_pdf(e) == e.ext # << >> /\ to_ascii_lowercase(e.ext[1]) = "pdf"

Contents == 1 .. MaxContent

Mtimes == 1 .. MaxMtime

Absent == [exists |-> FALSE, content |-> 0, mtime |-> 0]

File(c, m) == [exists |-> TRUE, content |-> c, mtime |-> m]

Files == {File(c, m) : c \in Contents, m \in Mtimes}

\* metadata.len(): contents 1 and 2 are different bytes of the same length
Size(c) == (c + 1) \div 2

\* hex(sha256(bytes)): injective on the contents of the model
sha256_hex(c) == << "sha256", c >>

\* DateTime<Utc>::to_rfc3339 of the modification time
rfc3339(m) == << "rfc3339", m >>

VARIABLES
    fs,          \* the files of the watched folders: path -> file
    channel,     \* mpsc channel from the watcher callbacks to the dispatch loop
    loop,        \* the dispatch-loop thread (for event in rx { handle_event })
    tasks,       \* the spawned processing tasks
    ntasks,      \* number of tasks spawned so far
    invoices,    \* table invoices of the store
    logs,        \* table processing_logs of the store (append-only)
    emitted,     \* notifications published through app.emit, in order
    settings,    \* the Settings value the coordinator owns
    clock,       \* source of now_rfc3339() and of SQL datetime('now')
    fsops,       \* file-system operations done so far
    faults,      \* collaborator failures injected so far
    path_unique, \* whether the schema has a UNIQUE index on invoices.file_path
    watcher,     \* AppState.watcher: the mutex (its holder) and the slot it guards
    live,        \* the watcher sets whose native observers are installed
    calls,       \* the calls of update_settings / restart_watchers in progress
    dirs,        \* what each folder is: a directory, missing, or a directory that cannot be read
    listing,     \* the entries of the folders besides the watched files
    input,       \* what a function called on its own is given (the remote answers, a text)
    output,      \* where that call stands and what it has returned
    db,          \* AppState.db: the mutex around the Database (its holder, its poison flag)
    users,       \* the threads at work in a block that takes the store lock
    threads,     \* the consumer thread and the channel of each call of restart_watchers
    lockers      \* the threads at work in an operation that takes locks: what they hold, what is left to do

\* the state of the watcher lifecycle and of the folders, the calls of
\* functions on their own, and the store lock with its users
cvars == << watcher, live, calls, dirs, listing, input, output, db, users, threads, lockers >>

vars == << fs, channel, loop, tasks, ntasks, invoices, logs, emitted, settings, clock, fsops, faults, path_unique, cvars >>

(***************************************************************************)
(* models/mod.rs and the values the collaborators return.                  *)
(***************************************************************************)
\* Settings.openai_api_key as CryptoService::encrypt_api_key stores it
KeychainRef == "keychain:billly:openai_api_key"

ApiKeys == {None, Some(KeychainRef)}

\* the text the extractor recognises in a file of content c
TextOf(c) == << "text", c >>

\* format!("{:.2}", value)
format_decimal(v) == << "%.2f", v >>

\* ExtractedInvoiceData as the remote extraction returns it for a text: the
\* documents of odd content state every optional field, the others none
FullData(text) == [invoice_number |-> Some(<< "no", text >>), total_amount |-> Some(text[2])]

SparseData == [invoice_number |-> None, total_amount |-> None]

ExtractedData(text) == IF text[2] % 2 = 1 THEN FullData(text) ELSE SparseData

\* the raw JSON answer the data was parsed from
RawJson(text, data) == << "json", text, data.invoice_number >>

\* a variant that hands every task the same identifier
new_v4_same(t) == 1

\* uuid::Uuid::new_v4(): a task draws at most one, so the task number names it
new_v4(t) == t

\* Utc::now().to_rfc3339() at clock value n
now_rfc3339(n) == << "rfc3339", n >>

\* SQLite datetime('now') at clock value n
sql_datetime_now(n) == << "sql", n >>

\* the Invoice a first sighting builds
NewInvoice(t, category, file_path, file_hash, file_modified_at, now) ==
    [id |-> new_v4(t),
     category |-> category,
     file_path |-> Some(file_path),
     file_hash |-> file_hash,
     file_modified_at |-> file_modified_at,
     ingestion_status |-> "pending",
     ocr_text |-> None,
     extracted_json |-> << "json" >>,
     invoice_number |-> None,
     total_amount |-> format_decimal(0),
     created_at |-> now,
     updated_at |-> now]

\* a variant that leaves the stored fingerprint as it was
StampPendingKeepHash(inv, file_path, file_hash, file_modified_at, now) ==
    [inv EXCEPT !.file_modified_at = file_modified_at,
                !.file_path = Some(file_path),
                !.ingestion_status = "pending",
                !.updated_at = now]

\* lines 58-62 of process_invoice: the fields the intermediate write stamps
StampPending(inv, file_path, file_hash, file_modified_at, now) ==
    [inv EXCEPT !.file_hash = file_hash,
                !.file_modified_at = file_modified_at,
                !.file_path = Some(file_path),
                !.ingestion_status = "pending",
                !.updated_at = now]

apply_extracted(inv, data, raw_json) ==
    [inv EXCEPT !.extracted_json = raw_json,
                !.invoice_number = data.invoice_number,
                !.total_amount = IF IsSome(data.total_amount)
                                 THEN format_decimal(Unwrap(data.total_amount))
                                 ELSE @]

\* lines 80-81 of process_invoice
StampProcessed(inv, now) ==
    [inv EXCEPT !.ingestion_status = "processed", !.updated_at = now]

\* a variant of mark_failed that leaves the status as it was
StampFailedKeep(inv, now) ==
    [inv EXCEPT !.updated_at = now]

\* lines 99-100 of mark_failed
StampFailed(inv, now) ==
    [inv EXCEPT !.ingestion_status = "failed", !.updated_at = now]

\* a variant that retries the records a run left pending or failed
UnchangedIfSettled(existing, file_hash, file_modified_at) ==
    /\ existing.file_hash = file_hash
    /\ existing.file_modified_at = file_modified_at
    /\ existing.ingestion_status \notin {"pending", "failed"}

\* a variant that short-circuits only on records already processed
UnchangedIfProcessed(existing, file_hash, file_modified_at) ==
    /\ existing.file_hash = file_hash
    /\ existing.file_modified_at = file_modified_at
    /\ existing.ingestion_status = "processed"

\* the idempotent short-circuit test of process_invoice
Unchanged(existing, file_hash, file_modified_at) ==
    /\ existing.file_hash = file_hash
    /\ existing.file_modified_at = file_modified_at

(***************************************************************************)
(* db/mod.rs. The table is a set of rows with primary key id.              *)
(***************************************************************************)
\* the schema (migrations/001_create_invoices.sql): "one row per invoice keyed
\* by identity, unique index or lookup by path"; with the unique index two
\* rows of one file_path conflict, without it they do not
PathConflict(r, inv) == path_unique /\ r.file_path = inv.file_path

\* INSERT OR REPLACE: the rows that conflict with the new one on the primary
\* key, or on a UNIQUE index, are deleted and the new row is inserted
upsert_invoice(tbl, inv) ==
    {r \in tbl : r.id # inv.id /\ ~PathConflict(r, inv)} \cup {inv}

\* the rows SELECT ... WHERE file_path = ?1 yields; query_row takes the first
get_invoice_by_path(tbl, path) == {r \in tbl : r.file_path = Some(path)}

get_invoice_by_id(tbl, id) == {r \in tbl : r.id = id}

\* UPDATE invoices SET ingestion_status = 'missing', updated_at = datetime('now')
mark_invoice_missing(tbl, path, n) ==
    {IF r.file_path = Some(path)
     THEN [r EXCEPT !.ingestion_status = "missing", !.updated_at = sql_datetime_now(n)]
     ELSE r : r \in tbl}

log_processing(log, invoice_id, file_hash, status, message) ==
    Append(log, [invoice_id |-> invoice_id, file_hash |-> file_hash,
                 process_type |-> "process", status |-> status, message |-> message])

(***************************************************************************)
(* Notifications (app.emit).                                               *)
(***************************************************************************)
InvoiceUpdated(inv) == [event |-> "invoice-updated", invoice |-> Some(inv), text |-> ""]

InvoiceMissing(path) == [event |-> "invoice-missing", invoice |-> None, text |-> path]

ProcessingError(msg) == [event |-> "processing-error", invoice |-> None, text |-> msg]

(***************************************************************************)
(* State of the threads and tasks.                                         *)
(***************************************************************************)
Settings(key) ==
    [revenue_folder |-> Some("revenue"), payable_folder |-> Some("payable"),
     openai_api_key |-> key, ocr_language |-> "deu"]

\* the Settings values a save can store: each folder configured or not
Configs ==
    {[Settings(key) EXCEPT !.revenue_folder = rev, !.payable_folder = pay] :
        rev \in {None} \cup {Some(f) : f \in Folders},
        pay \in {None} \cup {Some(f) : f \in Folders},
        key \in ApiKeys}

\* one RecommendedWatcher: watcher.watch(&path, RecursiveMode::NonRecursive)
Watch(folder, category) == [folder |-> folder, category |-> category, mode |-> "NonRecursive"]

\* Path::exists of a folder
Exists(d, folder) == d[folder] # "missing"

\* WatcherService::start: a watcher for each configured folder that exists
Watchers(s, d) ==
    (IF IsSome(s.revenue_folder) /\ Exists(d, Unwrap(s.revenue_folder))
     THEN {Watch(Unwrap(s.revenue_folder), "revenue")} ELSE {})
    \cup
    (IF IsSome(s.payable_folder) /\ Exists(d, Unwrap(s.payable_folder))
     THEN {Watch(Unwrap(s.payable_folder), "payable")} ELSE {})

CallIds == 1 .. MaxCalls

\* a call that has not been made yet
NoCall == [pc |-> "idle", kind |-> "", snapshot |-> None, result |-> ""]

\* the threads that reach the store: two spawned tasks, the dispatch loop
\* and the thread of a command
StoreUsers == {"task1", "task2", "loop", "command"}

\* Arc<Mutex<Database>> after setup: nobody holds it, it is not poisoned, no
\* operation runs on the connection
FreeDb == [holder |-> "", poisoned |-> FALSE, active |-> {}]

\* a thread that is not in a handler that uses the store
NoUser == [site |-> "", pc |-> "out", i |-> 0, result |-> "", marked |-> "", event |-> ""]

\* the watcher set of a call, once its observers are installed
WatcherSet(c, watches) == [by |-> c, watches |-> watches]

\* the threads that take locks: a spawned task, the dispatch loop and the
\* threads of two commands
LockUsers == {"task1", "loop", "command", "command2"}

\* a thread that is in no operation: nothing left to do, nothing held
NoLocker == [op |-> "", rest |-> << >>, held |-> << >>]

\* the calls of restart_watchers that make a channel: the one of setup (0) and the later ones
ThreadIds == {0} \cup CallIds

\* a call that has not made its channel: no thread, nothing sent
NoThread == [state |-> "none", queue |-> << >>, handled |-> {}]

\* std::thread::spawn(move || for event in rx { handle_event(..) }) on a new channel
NewThread == [NoThread EXCEPT !.state = "running"]

\* slots for the spawned tasks: enough for the tasks of a behaviour and for
\* one task per event of a burst
TaskIds == 1 .. (IF MaxChunks > MaxTasks THEN MaxChunks ELSE MaxTasks)

\* a task slot nothing was spawned into yet
NoTask ==
    [pc |-> "unspawned", origin |-> "", path |-> "", category |-> "",
     settings |-> None, file_hash |-> None, file_modified_at |-> None,
     existing |-> None, invoice |-> None, text |-> None, found |-> None,
     err |-> "", outcome |-> "", marked |-> FALSE, dispatched |-> None,
     text_calls |-> 0, ai_calls |-> 0, writes |-> 0]

\* tauri::async_runtime::spawn(async move { ... }) / the awaited call of the command
\* (dispatched keeps the settings in force at the spawn; the code does not
\* read it, the properties do)
NewTask(origin, path, category) ==
    [NoTask EXCEPT !.pc = "start", !.origin = origin, !.path = path, !.category = category,
                   !.dispatched = Some(settings)]

\* (due is the number of events sent when the sampling of the event in hand
\* began; the code does not read it, the properties do)
IdleLoop == [pc |-> "recv", event |-> None, samples |-> 0, last_size |-> None, due |-> 0]

\* what std::fs sees at a path: only the watched files exist
FileAt(p) == IF p \in DOMAIN fs THEN fs[p] ELSE Absent

FileEvent(path, category, kind) == [path |-> path, category |-> category, kind |-> kind]

Init ==
    /\ fs \in [Paths -> {Absent, File(1, 1)}]
    /\ channel = << >>
    /\ loop = IdleLoop
    /\ tasks = [t \in TaskIds |-> NoTask]
    /\ ntasks = 0
    /\ invoices = {}
    /\ logs = << >>
    /\ emitted = << >>
    /\ settings \in {Settings(k) : k \in ApiKeys}
    /\ clock = 1
    /\ fsops = 0
    /\ faults = 0
    /\ path_unique \in BOOLEAN
    /\ dirs = [f \in Folders |-> "dir"]
    /\ listing = {}
    /\ watcher = [lock |-> 0, slot |-> Some(WatcherSet(0, Watchers(settings, dirs)))]
    /\ live = {WatcherSet(0, Watchers(settings, dirs))}
    /\ calls = [c \in CallIds |-> NoCall]
    /\ input = << >>
    /\ output = << >>
    /\ db = FreeDb
    /\ users = [u \in StoreUsers |-> NoUser]
    /\ threads = [c \in ThreadIds |-> IF c = 0 THEN NewThread ELSE NoThread]
    /\ lockers = [u \in LockUsers |-> NoLocker]

(***************************************************************************)
(* Failures of the collaborators. A step that can fail for a reason the    *)
(* model does not hold (an SQLite error, an OCR, keychain or network       *)
(* failure) has a failing branch, which takes one unit of the budget.      *)
(***************************************************************************)
Faulty == faults < MaxFaults /\ faults' = faults + 1

Sound == faults' = faults

(***************************************************************************)
(* The file system and the watcher callback (create_watcher): every        *)
(* create, modify and remove of a PDF in a watched folder sends one        *)
(* FileEvent with the category of the folder's watcher.                    *)
(***************************************************************************)
\* the task slots spoken for: by the events still to be dispatched and by the
\* event being debounced (the slots are bounded, the loop never waits for one)
Reserved ==
    Len(SelectSeq(channel, LAMBDA ev : ev.kind # "Deleted"))
        + (IF loop.pc = "debounce" THEN 1 ELSE 0)

FsWrite(p, c, m) ==
    /\ fsops < MaxFsOps
    /\ ntasks + Reserved < MaxTasks
    /\ File(c, m) # fs[p]
    /\ m >= fs[p].mtime
    /\ fs' = [fs EXCEPT ![p] = File(c, m)]
    /\ channel' = Append(channel,
                    FileEvent(p, FolderCategory(p), IF fs[p].exists THEN "Modified" ELSE "Created"))
    /\ fsops' = fsops + 1
    /\ UNCHANGED << loop, tasks, ntasks, invoices, logs, emitted, settings, clock, faults, path_unique, cvars >>

FsDelete(p) ==
    /\ fsops < MaxFsOps
    /\ fs[p].exists
    /\ fs' = [fs EXCEPT ![p] = Absent]
    /\ channel' = Append(channel, FileEvent(p, FolderCategory(p), "Deleted"))
    /\ fsops' = fsops + 1
    /\ UNCHANGED << loop, tasks, ntasks, invoices, logs, emitted, settings, clock, faults, path_unique, cvars >>

(***************************************************************************)
(* The dispatch loop: for event in rx { handle_event(event, ...) }.        *)
(***************************************************************************)
\* FileEventKind::Deleted arm of handle_event
HandleDeleted(ev) ==
    /\ loop' = loop
    /\ UNCHANGED << tasks, ntasks, logs >>
    /\ IF IsSome(to_str(ev.path))
       THEN /\ \/ /\ invoices' = mark_invoice_missing(invoices, Unwrap(to_str(ev.path)), clock)
                  /\ clock' = clock + 1
                  /\ Sound
               \/ \* the UPDATE fails; let _ = drops the error
                  /\ UNCHANGED << invoices, clock >>
                  /\ Faulty
            /\ emitted' = Append(emitted, InvoiceMissing(Unwrap(to_str(ev.path))))
       ELSE UNCHANGED << invoices, clock, emitted, faults >>

\* the other arm: the debounce sampling starts
StartDebounce(ev) ==
    /\ loop' = [pc |-> "debounce", event |-> Some(ev), samples |-> 0, last_size |-> None, due |-> fsops]
    /\ UNCHANGED << tasks, ntasks, invoices, logs, emitted, clock, faults >>

LoopRecv ==
    /\ loop.pc = "recv"
    /\ channel # << >>
    /\ channel' = Tail(channel)
    /\ IF Head(channel).kind = "Deleted"
       THEN HandleDeleted(Head(channel))
       ELSE StartDebounce(Head(channel))
    /\ UNCHANGED << fs, settings, fsops, path_unique, cvars >>

\* handle_event after debounce_file_event returned: spawn the task or drop the event
AfterDebounce(stable) ==
    /\ loop' = IdleLoop
    /\ IF stable
       THEN /\ tasks' = [tasks EXCEPT ![ntasks + 1] =
                            NewTask("watcher", Unwrap(loop.event).path, Unwrap(loop.event).category)]
            /\ ntasks' = ntasks + 1
       ELSE UNCHANGED << tasks, ntasks >>

\* a variant that takes two equal samples as stable whatever the size
LoopDebounceAnySize ==
    /\ loop.pc = "debounce"
    /\ LET f == FileAt(Unwrap(loop.event).path)
           size == Size(f.content)
       IN  IF ~f.exists
           THEN AfterDebounce(FALSE)
           ELSE IF Some(size) = loop.last_size
           THEN AfterDebounce(TRUE)
           ELSE IF loop.samples + 1 = 3
           THEN AfterDebounce(size > 0)
           ELSE /\ loop' = [loop EXCEPT !.samples = @ + 1, !.last_size = Some(size)]
                /\ UNCHANGED << tasks, ntasks >>
    /\ UNCHANGED << fs, channel, invoices, logs, emitted, settings, clock, fsops, faults, path_unique, cvars >>

\* one iteration of the loop of debounce_file_event, after its sleep
LoopDebounce ==
    /\ loop.pc = "debounce"
    /\ LET f == FileAt(Unwrap(loop.event).path)
           size == Size(f.content)
       IN  IF ~f.exists
           THEN AfterDebounce(FALSE)
           ELSE IF Some(size) = loop.last_size
           THEN AfterDebounce(size > 0)
           ELSE IF loop.samples + 1 = 3
           THEN AfterDebounce(size > 0)
           ELSE /\ loop' = [loop EXCEPT !.samples = @ + 1, !.last_size = Some(size)]
                /\ UNCHANGED << tasks, ntasks >>
    /\ UNCHANGED << fs, channel, invoices, logs, emitted, settings, clock, fsops, faults, path_unique, cvars >>

(***************************************************************************)
(* The other two entry points.                                             *)
(***************************************************************************)
\* the watched files as directory entries
WatchedEntries == {Entry(p, FolderOf(p), "file", << "pdf" >>) : p \in {q \in Paths : fs[q].exists}}

\* WalkDir::new(folder).max_depth(1) with the errors filtered out: the folder
\* itself and the entries directly in it; nothing of a folder that is
\* missing, the folder alone when it cannot be read
WalkDir(folder) ==
    IF dirs[folder] = "missing" THEN {}
    ELSE {Entry(folder, "", "dir", << >>)}
         \cup (IF dirs[folder] = "dir"
               THEN {e \in WatchedEntries \cup listing : e.parent = folder}
               ELSE {})

\* the paths scan_folder collects: regular files with a pdf extension
ScanFolder(folder) == {e.path : e \in {x \in WalkDir(folder) : x.kind = "file" /\ is_pdf(x)}}

\* the orders in which a directory walk may yield the paths of a set
Orders(S) ==
    {q \in [1 .. Cardinality(S) -> S] : \A i, j \in 1 .. Cardinality(S) : q[i] = q[j] => i = j}

\* scan_folder(folder, category) for a folder setting: the tasks to spawn
ScanOf(setting, category) ==
    IF IsSome(setting)
    THEN {[i \in 1 .. Len(q) |-> << q[i], category >>] : q \in Orders(ScanFolder(Unwrap(setting)))}
    ELSE {<< >>}

\* the files enqueue_scan spawns tasks for, in order, as << path, category >>
ScanEntries ==
    {r \o p : r \in ScanOf(settings.revenue_folder, "revenue"),
              p \in ScanOf(settings.payable_folder, "payable")}

\* enqueue_scan: one task per PDF of the configured folders
EnqueueScan ==
    \E entries \in ScanEntries :
    /\ entries # << >>
    /\ ntasks + Reserved + Len(entries) <= MaxTasks
    /\ tasks' = [t \in TaskIds |->
                    IF t > ntasks /\ t <= ntasks + Len(entries)
                    THEN NewTask("scan", entries[t - ntasks][1], entries[t - ntasks][2])
                    ELSE tasks[t]]
    /\ ntasks' = ntasks + Len(entries)
    /\ UNCHANGED << fs, channel, loop, invoices, logs, emitted, settings, clock, fsops, faults, path_unique, cvars >>

\* reprocess_invoice(invoice_id): the row is read by id and process_invoice is
\* awaited on Path::new(file_path) with the row's category
ReprocessInvoice(id) ==
    /\ ntasks + Reserved < MaxTasks
    /\ \E r \in get_invoice_by_id(invoices, id) :
          /\ IsSome(r.file_path)
          /\ tasks' = [tasks EXCEPT ![ntasks + 1] =
                          NewTask("reprocess", Unwrap(r.file_path), r.category)]
    /\ ntasks' = ntasks + 1
    /\ UNCHANGED << fs, channel, loop, invoices, logs, emitted, settings, clock, fsops, faults, path_unique, cvars >>

(***************************************************************************)
(* How a call of process_invoice ends, by entry point.                     *)
(*   watcher (handle_event): Ok -> emit invoice-updated; Err -> look the   *)
(*     record up, mark_failed, emit processing-error                       *)
(*   scan (scan_folder): Ok -> emit invoice-updated; Err -> emit           *)
(*     processing-error                                                    *)
(*   reprocess (reprocess_invoice): the result goes back to the caller     *)
(***************************************************************************)
\* a variant in which only the watcher's tasks publish the record
SucceedQuiet(t, tk, inv) ==
    /\ tasks' = [tasks EXCEPT ![t] = [tk EXCEPT !.pc = "done", !.outcome = "ok", !.invoice = Some(inv)]]
    /\ emitted' = IF tk.origin = "watcher" THEN Append(emitted, InvoiceUpdated(inv)) ELSE emitted

\* process_invoice returns Ok(inv); tk is the task with its locals updated
Succeed(t, tk, inv) ==
    /\ tasks' = [tasks EXCEPT ![t] = [tk EXCEPT !.pc = "done", !.outcome = "ok", !.invoice = Some(inv)]]
    /\ emitted' = IF tk.origin = "reprocess" THEN emitted ELSE Append(emitted, InvoiceUpdated(inv))

\* a variant in which the error of one task takes the other tasks down
FailAll(t, tk, msg) ==
    /\ tasks' = [u \in TaskIds |->
                    IF u = t
                    THEN [tk EXCEPT !.pc = IF tk.origin = "watcher" THEN "failed" ELSE "done",
                                    !.outcome = "err", !.err = msg]
                    ELSE IF tasks[u].pc \notin {"unspawned", "done"}
                    THEN [tasks[u] EXCEPT !.pc = "done", !.outcome = "err", !.err = msg]
                    ELSE tasks[u]]
    /\ emitted' = IF tk.origin = "scan" THEN Append(emitted, ProcessingError(msg)) ELSE emitted

\* a variant in which every entry point reports the error at once
FailAndEmit(t, tk, msg) ==
    /\ tasks' = [tasks EXCEPT ![t] =
                    [tk EXCEPT !.pc = IF tk.origin = "watcher" THEN "failed" ELSE "done",
                               !.outcome = "err", !.err = msg]]
    /\ emitted' = IF tk.origin = "reprocess" THEN emitted ELSE Append(emitted, ProcessingError(msg))

\* process_invoice returns Err(msg)
Fail(t, tk, msg) ==
    /\ tasks' = [tasks EXCEPT ![t] =
                    [tk EXCEPT !.pc = IF tk.origin = "watcher" THEN "failed" ELSE "done",
                               !.outcome = "err", !.err = msg]]
    /\ emitted' = IF tk.origin = "scan" THEN Append(emitted, ProcessingError(msg)) ELSE emitted

\* the task goes on to its next step
Goto(t, tk, pc) ==
    /\ tasks' = [tasks EXCEPT ![t] = [tk EXCEPT !.pc = pc]]
    /\ emitted' = emitted

(***************************************************************************)
(* A processing task, step by step.                                        *)
(***************************************************************************)
\* the task starts: settings.lock() -> guard.clone(), then process_invoice
\* begins with let file_hash = sha256_file(path)?
TaskHash(t) ==
    /\ tasks[t].pc = "start"
    /\ LET tk == [tasks[t] EXCEPT !.settings = Some(settings)]
           f == FileAt(tk.path)
       IN  IF f.exists
           THEN \/ /\ Sound
                   /\ Goto(t, [tk EXCEPT !.file_hash = Some(sha256_hex(f.content))], "mtime")
                \/ \* File::open or a read fails
                   /\ Faulty
                   /\ Fail(t, tk, "Input/output error")
           ELSE Sound /\ Fail(t, tk, "No such file or directory")
    /\ UNCHANGED << fs, channel, loop, ntasks, invoices, logs, settings, clock, fsops, path_unique, cvars >>

\* let file_modified_at = modified_time_rfc3339(path)?
TaskMtime(t) ==
    /\ tasks[t].pc = "mtime"
    /\ LET f == FileAt(tasks[t].path)
       IN  IF f.exists
           THEN \/ /\ Sound
                   /\ Goto(t, [tasks[t] EXCEPT !.file_modified_at = Some(rfc3339(f.mtime))], "lookup")
                \/ \* std::fs::metadata fails
                   /\ Faulty
                   /\ Fail(t, tasks[t], "Input/output error")
           ELSE Sound /\ Fail(t, tasks[t], "No such file or directory")
    /\ UNCHANGED << fs, channel, loop, ntasks, invoices, logs, settings, clock, fsops, path_unique, cvars >>

\* lines 22-31: the lookup by path under the store lock and the short-circuit
TaskLookup(t) ==
    /\ tasks[t].pc = "lookup"
    /\ LET tk == tasks[t]
           rows == get_invoice_by_path(invoices, to_string_lossy(tk.path))
       IN  \/ /\ Faulty
              /\ Fail(t, tk, "store error")
           \/ /\ Sound
              /\ rows = {}
              /\ Goto(t, tk, "pending")
           \/ /\ Sound
              /\ \E existing \in rows :
                    IF Unchanged(existing, Unwrap(tk.file_hash), Unwrap(tk.file_modified_at))
                    THEN Succeed(t, [tk EXCEPT !.existing = Some(existing)], existing)
                    ELSE Goto(t, [tk EXCEPT !.existing = Some(existing)], "pending")
    /\ UNCHANGED << fs, channel, loop, ntasks, invoices, logs, settings, clock, fsops, path_unique, cvars >>

\* a variant in which the intermediate write takes the category of the call
PendingInvoiceOfCall(t, tk, now) ==
    [StampPending(IF IsSome(tk.existing)
                  THEN Unwrap(tk.existing)
                  ELSE NewInvoice(t, tk.category, to_string_lossy(tk.path),
                                  Unwrap(tk.file_hash), Unwrap(tk.file_modified_at), now),
                  to_string_lossy(tk.path), Unwrap(tk.file_hash), Unwrap(tk.file_modified_at), now)
        EXCEPT !.category = tk.category]

\* lines 33-62: the record the intermediate write persists
PendingInvoice(t, tk, now) ==
    StampPending(IF IsSome(tk.existing)
                 THEN Unwrap(tk.existing)
                 ELSE NewInvoice(t, tk.category, to_string_lossy(tk.path),
                                 Unwrap(tk.file_hash), Unwrap(tk.file_modified_at), now),
                 to_string_lossy(tk.path), Unwrap(tk.file_hash), Unwrap(tk.file_modified_at), now)

\* lines 33-67: the intermediate write
TaskWritePending(t) ==
    /\ tasks[t].pc = "pending"
    /\ clock' = clock + 1
    /\ LET tk == tasks[t]
           inv == PendingInvoice(t, tk, now_rfc3339(clock))
       IN  \/ /\ Sound
              /\ invoices' = upsert_invoice(invoices, inv)
              /\ Goto(t, [tk EXCEPT !.invoice = Some(inv), !.writes = @ + 1], "text")
           \/ /\ Faulty
              /\ invoices' = invoices
              /\ Fail(t, tk, "store error")
    /\ UNCHANGED << fs, channel, loop, ntasks, logs, settings, fsops, path_unique, cvars >>

\* lines 72-76: the credential of the settings snapshot
CredentialError(tk, keychain_ok) ==
    IF ~IsSome(Unwrap(tk.settings).openai_api_key) THEN "OpenAI API key missing"
    ELSE IF ~keychain_ok THEN "Keychain fetch error"
    ELSE ""

\* lines 69-76: text extraction reads the file as it is now, then the
\* credential is resolved
TaskExtractText(t) ==
    /\ tasks[t].pc = "text"
    /\ LET tk == [tasks[t] EXCEPT !.text_calls = @ + 1]
           f == FileAt(tk.path)
           tx == [tk EXCEPT !.text = Some(TextOf(f.content)),
                            !.invoice = Some([Unwrap(@) EXCEPT !.ocr_text = Some(TextOf(f.content))])]
       IN  IF ~f.exists
           THEN Sound /\ Fail(t, tk, "text extraction failed")
           ELSE \/ /\ Faulty
                   /\ Fail(t, tk, "text extraction failed")
                \/ /\ Sound
                   /\ IF CredentialError(tx, TRUE) # ""
                      THEN Fail(t, tx, CredentialError(tx, TRUE))
                      ELSE Goto(t, tx, "final")
                \/ /\ Faulty
                   /\ CredentialError(tx, TRUE) = ""
                   /\ Fail(t, tx, CredentialError(tx, FALSE))
    /\ UNCHANGED << fs, channel, loop, ntasks, invoices, logs, settings, clock, fsops, path_unique, cvars >>

\* lines 79-81: the record the final write persists
ProcessedInvoice(tk, data, now) ==
    StampProcessed(apply_extracted(Unwrap(tk.invoice), data, RawJson(Unwrap(tk.text), data)), now)

\* lines 78-95: the remote extraction (it touches no shared state), then the
\* final write and the success entry of the log under one lock
TaskWriteFinal(t) ==
    /\ tasks[t].pc = "final"
    /\ LET tk == [tasks[t] EXCEPT !.ai_calls = @ + 1]
           data == ExtractedData(Unwrap(tk.text))
           inv == ProcessedInvoice(tk, data, now_rfc3339(clock))
       IN  \/ \* extract_invoice_data fails
              /\ Faulty
              /\ UNCHANGED << invoices, logs, clock >>
              /\ Fail(t, tk, "extraction failed")
           \/ /\ Sound
              /\ clock' = clock + 1
              /\ invoices' = upsert_invoice(invoices, inv)
              /\ logs' = log_processing(logs, inv.id, inv.file_hash, "success", None)
              /\ Succeed(t, [tk EXCEPT !.writes = @ + 1], inv)
           \/ \* log_processing fails after the upsert
              /\ Faulty
              /\ clock' = clock + 1
              /\ invoices' = upsert_invoice(invoices, inv)
              /\ logs' = logs
              /\ Fail(t, [tk EXCEPT !.writes = @ + 1], "store error")
           \/ \* upsert_invoice fails
              /\ Faulty
              /\ clock' = clock + 1
              /\ UNCHANGED << invoices, logs >>
              /\ Fail(t, tk, "store error")
    /\ UNCHANGED << fs, channel, loop, ntasks, settings, fsops, path_unique, cvars >>

\* the Err arm of handle_event: get_invoice_by_path(...).ok().flatten()
TaskErrLookup(t) ==
    /\ tasks[t].pc = "failed"
    /\ LET tk == tasks[t]
           rows == get_invoice_by_path(invoices, to_string_lossy(tk.path))
           none == /\ tasks' = [tasks EXCEPT ![t] = [tk EXCEPT !.pc = "done"]]
                   /\ emitted' = Append(emitted, ProcessingError(tk.err))
       IN  \/ /\ Sound
              /\ \E found \in rows :
                    Goto(t, [tk EXCEPT !.found = Some(found)], "mark")
           \/ \* the path has no row
              /\ Sound
              /\ rows = {}
              /\ none
           \/ \* the lookup fails and .ok() drops the error
              /\ Faulty
              /\ none
    /\ UNCHANGED << fs, channel, loop, ntasks, invoices, logs, settings, clock, fsops, path_unique, cvars >>

\* mark_failed(&db, &mut invoice, &err.to_string()) on the record found, its
\* result dropped by let _ =, then emit("processing-error", ...)
TaskMarkFailed(t) ==
    /\ tasks[t].pc = "mark"
    /\ clock' = clock + 1
    /\ LET tk == tasks[t]
           inv == StampFailed(Unwrap(tk.found), now_rfc3339(clock))
           end(marked) == tasks' = [tasks EXCEPT ![t] = [tk EXCEPT !.pc = "done", !.marked = marked]]
       IN  /\ \/ /\ Sound
                 /\ invoices' = upsert_invoice(invoices, inv)
                 /\ logs' = log_processing(logs, inv.id, inv.file_hash, "failed", Some(tk.err))
                 /\ end(TRUE)
              \/ \* log_processing fails after the upsert
                 /\ Faulty
                 /\ invoices' = upsert_invoice(invoices, inv)
                 /\ logs' = logs
                 /\ end(TRUE)
              \/ \* upsert_invoice fails
                 /\ Faulty
                 /\ UNCHANGED << invoices, logs >>
                 /\ end(FALSE)
           /\ emitted' = Append(emitted, ProcessingError(tk.err))
    /\ UNCHANGED << fs, channel, loop, ntasks, settings, fsops, path_unique, cvars >>

TaskStep(t) ==
    \/ TaskHash(t)
    \/ TaskMtime(t)
    \/ TaskLookup(t)
    \/ TaskWritePending(t)
    \/ TaskExtractText(t)
    \/ TaskWriteFinal(t)
    \/ TaskErrLookup(t)
    \/ TaskMarkFailed(t)

Next ==
    \/ \E p \in Paths, c \in Contents, m \in Mtimes : FsWrite(p, c, m)
    \/ \E p \in Paths : FsDelete(p)
    \/ LoopRecv
    \/ LoopDebounce
    \/ EnqueueScan
    \/ \E id \in TaskIds : ReprocessInvoice(id)
    \/ \E t \in TaskIds : TaskStep(t)

Spec == Init /\ [][Next]_vars

(***************************************************************************)
(* A burst of writes: a file is created (possibly empty), grows chunk by   *)
(* chunk or is removed while the dispatch loop debounces the events. Every *)
(* write and every removal sends its event (create_watcher).               *)
(***************************************************************************)
\* the content after one more chunk: the size grows by one
Grown(f) == IF ~f.exists THEN 1 ELSE IF f.content = 0 THEN 1 ELSE f.content + 2

\* the modified-time after one more write
Touched(f) == IF f.mtime < MaxMtime THEN f.mtime + 1 ELSE MaxMtime

\* a chunk is written to p, or p is created empty
FsAppend(p) ==
    /\ fsops < MaxChunks
    /\ \E c \in {Grown(fs[p])} \cup (IF fs[p].exists THEN {} ELSE {0}) :
          fs' = [fs EXCEPT ![p] = [exists |-> TRUE, content |-> c, mtime |-> Touched(fs[p])]]
    /\ channel' = Append(channel,
                    FileEvent(p, FolderCategory(p), IF fs[p].exists THEN "Modified" ELSE "Created"))
    /\ fsops' = fsops + 1
    /\ UNCHANGED << loop, tasks, ntasks, invoices, logs, emitted, settings, clock, faults, path_unique, cvars >>

\* p is removed
FsUnlink(p) ==
    /\ fsops < MaxChunks
    /\ fs[p].exists
    /\ fs' = [fs EXCEPT ![p] = Absent]
    /\ channel' = Append(channel, FileEvent(p, FolderCategory(p), "Deleted"))
    /\ fsops' = fsops + 1
    /\ UNCHANGED << loop, tasks, ntasks, invoices, logs, emitted, settings, clock, faults, path_unique, cvars >>

BurstNext ==
    \/ \E p \in Paths : FsAppend(p)
    \/ \E p \in Paths : FsUnlink(p)
    \/ LoopRecv
    \/ LoopDebounce

BurstSpec == Init /\ [][BurstNext]_vars

(***************************************************************************)
(* A file that is taken out of its folder and put back: the removal sends  *)
(* a deleted event, the return a created event; a file that is moved back  *)
(* keeps its content and may keep its modified-time.                       *)
(***************************************************************************)
\* p comes back with the content it had and modified-time m
FsRestore(p, m) ==
    /\ fsops < MaxChunks
    /\ ntasks + Reserved < MaxTasks
    /\ ~fs[p].exists
    /\ fs' = [fs EXCEPT ![p] = File(1, m)]
    /\ channel' = Append(channel, FileEvent(p, FolderCategory(p), "Created"))
    /\ fsops' = fsops + 1
    /\ UNCHANGED << loop, tasks, ntasks, invoices, logs, emitted, settings, clock, faults, path_unique, cvars >>

RestoreNext ==
    \/ \E p \in Paths : FsUnlink(p)
    \/ \E p \in Paths, m \in Mtimes : FsRestore(p, m)
    \/ LoopRecv
    \/ LoopDebounce
    \/ EnqueueScan
    \/ \E t \in TaskIds : TaskStep(t)

RestoreSpec == Init /\ [][RestoreNext]_vars

\* the dispatch loop is a thread of its own and every task is scheduled by
\* the async runtime: each of them takes its next step when it has one
FairSpec ==
    /\ Spec
    /\ WF_vars(LoopRecv)
    /\ WF_vars(LoopDebounce)
    /\ \A t \in TaskIds : WF_vars(TaskStep(t))

(***************************************************************************)
(* Settings and the watcher lifecycle. A call of update_settings stores    *)
(* the new value under the settings lock and goes on into restart_watchers;*)
(* restart_watchers holds the watcher mutex from its first line to its     *)
(* return. Calls run on the threads of their commands and interleave.      *)
(***************************************************************************)
\* update_settings(s): *locked = settings, then restart_watchers
UpdateSettings(c, s) ==
    /\ calls[c].pc = "idle"
    /\ settings' = s
    /\ calls' = [calls EXCEPT ![c] = [@ EXCEPT !.pc = "restart", !.kind = "update"]]
    /\ UNCHANGED << fs, channel, loop, tasks, ntasks, invoices, logs, emitted, clock, fsops, faults,
                    path_unique, watcher, live, dirs, listing, input, output,
                    db, users, threads, lockers >>

\* restart_watchers called on its own (setup)
CallRestart(c) ==
    /\ calls[c].pc = "idle"
    /\ calls' = [calls EXCEPT ![c] = [@ EXCEPT !.pc = "restart", !.kind = "restart"]]
    /\ UNCHANGED << fs, channel, loop, tasks, ntasks, invoices, logs, emitted, settings, clock, fsops,
                    faults, path_unique, watcher, live, dirs, listing, input, output,
                    db, users, threads, lockers >>

\* a variant in which the old WatcherService is not dropped when the slot is cleared
RestartLockKeep(c) ==
    /\ calls[c].pc = "restart"
    /\ watcher.lock = 0
    /\ watcher' = [lock |-> c, slot |-> None]
    /\ calls' = [calls EXCEPT ![c].pc = "locked"]
    /\ UNCHANGED << fs, channel, loop, tasks, ntasks, invoices, logs, emitted, settings, clock, fsops,
                    faults, path_unique, live, dirs, listing, input, output,
                    db, users, threads, lockers >>

\* a variant that does not wait for the watcher mutex
RestartLockShared(c) ==
    /\ calls[c].pc = "restart"
    /\ watcher' = [lock |-> c, slot |-> None]
    /\ live' = IF IsSome(watcher.slot) THEN live \ {Unwrap(watcher.slot)} ELSE live
    /\ calls' = [calls EXCEPT ![c].pc = "locked"]
    /\ UNCHANGED << fs, channel, loop, tasks, ntasks, invoices, logs, emitted, settings, clock, fsops,
                    faults, path_unique, dirs, listing, input, output,
                    db, users, threads, lockers >>

\* a variant in which dropping the old WatcherService aborts the tasks in flight
RestartLockAbort(c) ==
    /\ calls[c].pc = "restart"
    /\ watcher.lock = 0
    /\ watcher' = [lock |-> c, slot |-> None]
    /\ live' = IF IsSome(watcher.slot) THEN live \ {Unwrap(watcher.slot)} ELSE live
    /\ calls' = [calls EXCEPT ![c].pc = "locked"]
    /\ tasks' = [t \in TaskIds |->
                    IF tasks[t].pc \notin {"unspawned", "done"}
                    THEN [tasks[t] EXCEPT !.pc = "done", !.outcome = "aborted"]
                    ELSE tasks[t]]
    /\ UNCHANGED << fs, channel, loop, ntasks, invoices, logs, emitted, settings, clock, fsops,
                    faults, path_unique, dirs, listing, input, output,
                    db, users, threads, lockers >>

\* self.watcher.lock() and *guard = None: the old WatcherService is dropped
\* and its native observers with it
RestartLock(c) ==
    /\ calls[c].pc = "restart"
    /\ watcher.lock = 0
    /\ watcher' = [lock |-> c, slot |-> None]
    /\ live' = IF IsSome(watcher.slot) THEN live \ {Unwrap(watcher.slot)} ELSE live
    /\ calls' = [calls EXCEPT ![c].pc = "locked"]
    /\ UNCHANGED << fs, channel, loop, tasks, ntasks, invoices, logs, emitted, settings, clock, fsops,
                    faults, path_unique, dirs, listing, input, output,
                    db, users, threads, lockers >>

\* self.settings.lock().clone()
RestartSnapshot(c) ==
    /\ calls[c].pc = "locked"
    /\ calls' = [calls EXCEPT ![c] = [@ EXCEPT !.pc = "start", !.snapshot = Some(settings)]]
    /\ UNCHANGED << fs, channel, loop, tasks, ntasks, invoices, logs, emitted, settings, clock, fsops,
                    faults, path_unique, watcher, live, dirs, listing, input, output,
                    db, users, threads, lockers >>

\* a variant that spawns the consumer thread before it starts the watchers
RestartStartSpawnFirst(c) ==
    /\ calls[c].pc = "start"
    /\ threads' = [threads EXCEPT ![c] = NewThread]
    /\ LET set == WatcherSet(c, Watchers(Unwrap(calls[c].snapshot), dirs))
       IN  \/ /\ Sound
              /\ watcher' = [lock |-> 0, slot |-> Some(set)]
              /\ live' = live \cup {set}
              /\ calls' = [calls EXCEPT ![c] = [@ EXCEPT !.pc = "done", !.result = "ok"]]
           \/ /\ set.watches # {}
              /\ Faulty
              /\ watcher' = [lock |-> 0, slot |-> None]
              /\ live' = live
              /\ calls' = [calls EXCEPT ![c] = [@ EXCEPT !.pc = "done", !.result = "err"]]
    /\ UNCHANGED << fs, channel, loop, tasks, ntasks, invoices, logs, emitted, settings, clock, fsops,
                    path_unique, dirs, listing, input, output,
                    db, users, lockers >>

\* mpsc::channel(), WatcherService::start, *guard = Some(watcher) and the
\* spawn of the consumer thread; when create_watcher fails the watchers made
\* so far are dropped with the channel, the slot stays empty, no thread is
\* spawned and the error is returned. The guard is released on return either way.
RestartStart(c) ==
    /\ calls[c].pc = "start"
    /\ LET set == WatcherSet(c, Watchers(Unwrap(calls[c].snapshot), dirs))
       IN  \/ /\ Sound
              /\ watcher' = [lock |-> 0, slot |-> Some(set)]
              /\ live' = live \cup {set}
              /\ threads' = [threads EXCEPT ![c] = NewThread]
              /\ calls' = [calls EXCEPT ![c] = [@ EXCEPT !.pc = "done", !.result = "ok"]]
           \/ /\ set.watches # {}
              /\ Faulty
              /\ watcher' = [lock |-> 0, slot |-> None]
              /\ live' = live
              /\ threads' = threads
              /\ calls' = [calls EXCEPT ![c] = [@ EXCEPT !.pc = "done", !.result = "err"]]
    /\ UNCHANGED << fs, channel, loop, tasks, ntasks, invoices, logs, emitted, settings, clock, fsops,
                    path_unique, dirs, listing, input, output,
                    db, users, lockers >>

\* after AppState::new: no watcher yet, any settings loaded from the store,
\* the folders in any condition; a folder that is missing holds nothing
ConfigInit ==
    /\ dirs \in [Folders -> {"dir", "missing", "locked"}]
    /\ fs \in [Paths -> {Absent, File(1, 1)}]
    /\ \A p \in Paths : fs[p].exists => dirs[FolderOf(p)] # "missing"
    /\ listing = {}
    /\ channel = << >>
    /\ loop = IdleLoop
    /\ tasks = [t \in TaskIds |-> NoTask]
    /\ ntasks = 0
    /\ invoices = {}
    /\ logs = << >>
    /\ emitted = << >>
    /\ settings \in Configs
    /\ clock = 1
    /\ fsops = 0
    /\ faults = 0
    /\ path_unique \in BOOLEAN
    /\ watcher = [lock |-> 0, slot |-> None]
    /\ live = {}
    /\ calls = [c \in CallIds |-> NoCall]
    /\ input = << >>
    /\ output = << >>
    /\ db = FreeDb
    /\ users = [u \in StoreUsers |-> NoUser]
    /\ threads = [c \in ThreadIds |-> NoThread]
    /\ lockers = [u \in LockUsers |-> NoLocker]

ConfigNext ==
    \/ \E c \in CallIds, s \in Configs : UpdateSettings(c, s)
    \/ \E c \in CallIds : CallRestart(c)
    \/ \E c \in CallIds : RestartLock(c)
    \/ \E c \in CallIds : RestartSnapshot(c)
    \/ \E c \in CallIds : RestartStart(c)

ConfigSpec == ConfigInit /\ [][ConfigNext]_vars

\* a scan of folders in any condition holding any of the entries: an entry
\* is there only if the directory it lies in is
ScanInit ==
    /\ dirs \in [Folders -> {"dir", "missing", "locked"}]
    /\ fs \in [Paths -> {Absent, File(1, 1)}]
    /\ \A p \in Paths : fs[p].exists => dirs[FolderOf(p)] # "missing"
    /\ listing \in SUBSET OtherEntries
    /\ \A e \in listing :
          \/ e.parent \in Folders /\ dirs[e.parent] # "missing"
          \/ \E d \in listing : d.path = e.parent /\ d.kind = "dir"
    /\ channel = << >>
    /\ loop = IdleLoop
    /\ tasks = [t \in TaskIds |-> NoTask]
    /\ ntasks = 0
    /\ invoices = {}
    /\ logs = << >>
    /\ emitted = << >>
    /\ settings \in Configs
    /\ clock = 1
    /\ fsops = 0
    /\ faults = 0
    /\ path_unique \in BOOLEAN
    /\ watcher = [lock |-> 0, slot |-> Some(WatcherSet(0, Watchers(settings, dirs)))]
    /\ live = {WatcherSet(0, Watchers(settings, dirs))}
    /\ calls = [c \in CallIds |-> NoCall]
    /\ input = << >>
    /\ output = << >>
    /\ db = FreeDb
    /\ users = [u \in StoreUsers |-> NoUser]
    /\ threads = [c \in ThreadIds |-> IF c = 0 THEN NewThread ELSE NoThread]
    /\ lockers = [u \in LockUsers |-> NoLocker]

\* reprocess_all and setup call enqueue_scan
ScanNext == EnqueueScan

ScanSpec == ScanInit /\ [][ScanNext]_vars

\* settings saved while files are dispatched: from the state after setup,
\* scans and watcher events spawn tasks, each task takes its first step,
\* and calls of update_settings come in between
DispatchNext ==
    \/ \E c \in CallIds, key \in ApiKeys : UpdateSettings(c, Settings(key))
    \/ \E c \in CallIds : RestartLock(c)
    \/ \E c \in CallIds : RestartSnapshot(c)
    \/ \E c \in CallIds : RestartStart(c)
    \/ \E p \in Paths, c \in Contents, m \in Mtimes : FsWrite(p, c, m)
    \/ LoopRecv
    \/ LoopDebounce
    \/ EnqueueScan
    \/ \E t \in TaskIds : TaskHash(t)

DispatchSpec == Init /\ [][DispatchNext]_vars

\* settings saved and watchers restarted while tasks are in flight: the
\* tasks run on the async runtime, the calls on the threads of their commands
InFlightNext ==
    \/ \E c \in CallIds, key \in ApiKeys : UpdateSettings(c, Settings(key))
    \/ \E c \in CallIds : CallRestart(c)
    \/ \E c \in CallIds : RestartLock(c)
    \/ \E c \in CallIds : RestartSnapshot(c)
    \/ \E c \in CallIds : RestartStart(c)
    \/ \E p \in Paths, c \in Contents, m \in Mtimes : FsWrite(p, c, m)
    \/ LoopRecv
    \/ LoopDebounce
    \/ \E t \in TaskIds : TaskStep(t)

\* every task is scheduled by the async runtime and the dispatch loop is a
\* thread of its own; a call of a command is made or not
InFlightSpec ==
    /\ Init
    /\ [][InFlightNext]_vars
    /\ WF_vars(LoopRecv)
    /\ WF_vars(LoopDebounce)
    /\ \A t \in TaskIds : WF_vars(TaskStep(t))

(***************************************************************************)
(* utils/mod.rs: normalize_date. A text is a sequence of characters.       *)
(* NaiveDate::parse_from_str reads a numeric item as one up to its width   *)
(* digits (four for %Y without a sign, two for %m and %d), a literal as    *)
(* itself, and fails when input is left over or the date does not exist.   *)
(***************************************************************************)
Digit == << "0", "1", "2", "3", "4", "5", "6", "7", "8", "9" >>

IsDigit(c) == \E d \in 1 .. 10 : Digit[d] = c

DigitValue(c) == (CHOOSE d \in 1 .. 10 : Digit[d] = c) - 1

\* the number a run of digits denotes
RECURSIVE NumberOf(_)
NumberOf(ds) ==
    IF ds = << >> THEN 0 ELSE 10 * NumberOf(SubSeq(ds, 1, Len(ds) - 1)) + DigitValue(ds[Len(ds)])

\* scan::number(s, 1, max): how many digits it takes, at most max
Taken(s, max) ==
    CHOOSE k \in 0 .. max :
        /\ k <= Len(s)
        /\ \A i \in 1 .. k : IsDigit(s[i])
        /\ k = max \/ k = Len(s) \/ ~IsDigit(s[k + 1])

\* str::trim for the blank
RECURSIVE trim(_)
trim(s) ==
    IF s = << >> THEN s
    ELSE IF Head(s) = " " THEN trim(Tail(s))
    ELSE IF s[Len(s)] = " " THEN trim(SubSeq(s, 1, Len(s) - 1))
    ELSE s

\* the formats of normalize_date in the order they are tried
Formats ==
    << [first |-> "Y", sep |-> "-"],
       [first |-> "D", sep |-> "."],
       [first |-> "D", sep |-> "/"],
       [first |-> "Y", sep |-> "/"],
       [first |-> "Y", sep |-> "."] >>

IsLeap(y) == (y % 4 = 0 /\ y % 100 # 0) \/ y % 400 = 0

DaysIn(y, m) ==
    IF m = 2 THEN (IF IsLeap(y) THEN 29 ELSE 28)
    ELSE IF m \in {4, 6, 9, 11} THEN 30 ELSE 31

\* NaiveDate::from_ymd_opt
ValidDate(y, m, d) == m \in 1 .. 12 /\ d \in 1 .. DaysIn(y, m)

\* NaiveDate::parse_from_str(raw, fmt): << y, m, d >> of the date, or << >>
parse_from_str(raw, fmt) ==
    LET w1 == IF fmt.first = "Y" THEN 4 ELSE 2
        w3 == IF fmt.first = "Y" THEN 2 ELSE 4
        k1 == Taken(raw, w1)
        r1 == SubSeq(raw, k1 + 1, Len(raw))
        r2 == IF r1 = << >> THEN << >> ELSE Tail(r1)
        k2 == Taken(r2, 2)
        r3 == SubSeq(r2, k2 + 1, Len(r2))
        r4 == IF r3 = << >> THEN << >> ELSE Tail(r3)
        k3 == Taken(r4, w3)
        n1 == NumberOf(SubSeq(raw, 1, k1))
        n2 == NumberOf(SubSeq(r2, 1, k2))
        n3 == NumberOf(SubSeq(r4, 1, k3))
        y == IF fmt.first = "Y" THEN n1 ELSE n3
        d == IF fmt.first = "Y" THEN n3 ELSE n1
    IN  IF /\ k1 > 0 /\ r1 # << >> /\ Head(r1) = fmt.sep
           /\ k2 > 0 /\ r3 # << >> /\ Head(r3) = fmt.sep
           /\ k3 > 0 /\ k3 = Len(r4)
           /\ ValidDate(y, n2, d)
        THEN << y, n2, d >>
        ELSE << >>

\* a number written with at least w digits
Padded(n, w) ==
    LET ds == [i \in 1 .. w |-> Digit[((n \div (10 ^ (w - i))) % 10) + 1]]
    IN  ds

\* date.format("%Y-%m-%d") for the years 0 to 9999
format_ymd(date) == Padded(date[1], 4) \o << "-" >> \o Padded(date[2], 2) \o << "-" >> \o Padded(date[3], 2)

\* the first format, from the i-th on, that parses raw
RECURSIVE FirstParse(_, _)
FirstParse(raw, i) ==
    IF i > Len(Formats) THEN << >>
    ELSE IF parse_from_str(raw, Formats[i]) # << >> THEN parse_from_str(raw, Formats[i])
    ELSE FirstParse(raw, i + 1)

\* normalize_date(value)
normalize_date(value) ==
    IF value = None THEN None
    ELSE IF trim(Unwrap(value)) = << >> THEN None
    ELSE IF FirstParse(trim(Unwrap(value)), 1) # << >>
         THEN Some(format_ymd(FirstParse(trim(Unwrap(value)), 1)))
         ELSE Some(trim(Unwrap(value)))

\* the digit groups and separators the date texts are put together from
Groups ==
    { << "2", "0", "2", "4" >>, << "2", "0", "2", "3" >>, << "2", "4" >>, << "0", "1" >>, << "0", "3" >>, << "1" >>, << "1", "3" >>, << "3", "1" >>, << "0", "2" >>, << "2", "9" >>, << "0", "0" >> }

Separators == {"-", ".", "/"}

\* the texts handed to normalize_date: three groups of digits with two
\* separators, bare or with blanks around them, and texts that are no date
DateTexts ==
    { pad \o a \o << s1 >> \o b \o << s2 >> \o c \o pad :
        a \in Groups, b \in Groups, c \in Groups, s1 \in Separators, s2 \in Separators,
        pad \in {<< >>, << " " >>} }
    \cup { << >>, << " " >>, << "M", "a", "r", "c", "h", " ", "1", "s", "t" >>, << "2", "0", "2", "4", "-", "0", "3", "-", "0", "1", "T", "1", "0" >> }

\* the remaining variables of a program that has nothing to do
Idle ==
    /\ fs = [p \in Paths |-> Absent]
    /\ channel = << >>
    /\ loop = IdleLoop
    /\ tasks = [t \in TaskIds |-> NoTask]
    /\ ntasks = 0
    /\ invoices = {}
    /\ logs = << >>
    /\ emitted = << >>
    /\ settings = Settings(Some(KeychainRef))
    /\ clock = 1
    /\ fsops = 0
    /\ faults = 0
    /\ path_unique = TRUE
    /\ dirs = [f \in Folders |-> "dir"]
    /\ listing = {}
    /\ watcher = [lock |-> 0, slot |-> Some(WatcherSet(0, Watchers(settings, dirs)))]
    /\ live = {WatcherSet(0, Watchers(settings, dirs))}
    /\ calls = [c \in CallIds |-> NoCall]
    /\ db = FreeDb
    /\ users = [u \in StoreUsers |-> NoUser]
    /\ threads = [c \in ThreadIds |-> IF c = 0 THEN NewThread ELSE NoThread]
    /\ lockers = [u \in LockUsers |-> NoLocker]

DateInit ==
    /\ Idle
    /\ input \in {None} \cup {Some(t) : t \in DateTexts}
    /\ output = << >>

\* normalize_date(input), and normalize_date of what it returned
NormalizeDate ==
    /\ Len(output) < 2
    /\ output' = IF output = << >> THEN << normalize_date(input) >>
                  ELSE Append(output, normalize_date(output[1]))
    /\ UNCHANGED << fs, channel, loop, tasks, ntasks, invoices, logs, emitted, settings, clock, fsops,
                    faults, path_unique, watcher, live, calls, dirs, listing, input,
                    db, users, threads, lockers >>

DateNext == NormalizeDate

DateSpec == DateInit /\ [][DateNext]_vars

(***************************************************************************)
(* services/openai.rs: extract_invoice_data, and the columns of the record *)
(* apply_extracted fills from its result.                                  *)
(*                                                                         *)
(* An f64 of the confidence score is written as the number of hundredths   *)
(* it stands for and the units in the last place it lies off the f64       *)
(* nearest to that decimal: of the sums compute_confidence can form, only  *)
(* 0.7 + 0.1 is not the nearest f64 (it is 0.7999999999999999).            *)
(***************************************************************************)
F64(c) == [c |-> c, off |-> 0]

\* x + y in f64, for the sums of compute_confidence
f64_add(x, y) ==
    IF x = F64(70) /\ y = F64(10) THEN [c |-> 80, off |-> 0 - 1] ELSE F64(x.c + y.c)

\* f64::clamp(0.0, 1.0)
f64_clamp(x) == IF x.c < 0 THEN F64(0) ELSE IF x.c > 100 \/ (x.c = 100 /\ x.off > 0) THEN F64(100) ELSE x

\* an ExtractedInvoiceData value
Data(number, date, counterparty, total, tax, net, confidence) ==
    [invoice_number |-> number, invoice_date |-> date, due_date |-> None,
     counterparty_name |-> counterparty, total_amount |-> total, currency |-> None,
     tax_amount |-> tax, net_amount |-> net, extraction_notes |-> "",
     confidence_score |-> confidence]

\* the values a schema-valid answer can deserialize to
Datas ==
    {Data(number, date, counterparty, total, tax, net, confidence) :
        number \in {None, Some("R-1")},
        date \in {None, Some(<< "0", "1", ".", "0", "3", ".", "2", "0", "2", "4" >>)},
        counterparty \in {None, Some("ACME")},
        total \in {None, Some(119)},
        tax \in {None, Some(19)},
        net \in {None, Some(100)},
        confidence \in {None, Some(F64(90))}}

\* what one call of the remote service comes to: the call fails (transport,
\* status, no choice), its content is no JSON, JSON that the schema rejects,
\* or JSON that the schema accepts
Response(kind, data) == [kind |-> kind, data |-> data]

Responses ==
    {Response(kind, Data(None, None, None, None, None, None, None)) : kind \in {"error", "text", "invalid"}}
    \cup {Response("valid", d) : d \in Datas}

\* a variant that always scores a half
compute_confidence_half(data) == F64(50)

compute_confidence(data) ==
    LET s0 == F64(40)
        s1 == IF IsSome(data.invoice_number) THEN f64_add(s0, F64(10)) ELSE s0
        s2 == IF IsSome(data.invoice_date) THEN f64_add(s1, F64(10)) ELSE s1
        s3 == IF IsSome(data.counterparty_name) THEN f64_add(s2, F64(10)) ELSE s2
        s4 == IF IsSome(data.total_amount) THEN f64_add(s3, F64(10)) ELSE s3
        s5 == IF IsSome(data.tax_amount) \/ IsSome(data.net_amount) THEN f64_add(s4, F64(5)) ELSE s4
    IN  f64_clamp(s5)

\* lines 66-76: the defaults filled into the deserialized value
FillDefaults(data) ==
    [data EXCEPT !.currency = IF @ = None THEN Some("EUR") ELSE @,
                 !.extraction_notes = IF @ = "" THEN "notes missing" ELSE @,
                 !.confidence_score = IF @ = None THEN Some(compute_confidence(data)) ELSE @]

\* an invocation of extract_invoice_data before its first call
NoExtract == [pc |-> "call", n |-> 0, result |-> None, raw |-> None, err |-> "", columns |-> None]

\* how the invocation goes on after the answer resp to its n-th call
Answered(resp, n) ==
    IF resp.kind = "error"
    THEN [NoExtract EXCEPT !.pc = "done", !.n = n, !.err = "OpenAI error"]
    ELSE IF resp.kind = "text"
    THEN [NoExtract EXCEPT !.pc = "done", !.n = n, !.err = "Invalid JSON"]
    ELSE IF resp.kind = "invalid"
    THEN (IF n = 1
          THEN [NoExtract EXCEPT !.pc = "retry", !.n = n]
          ELSE [NoExtract EXCEPT !.pc = "done", !.n = n, !.err = "JSON validation failed"])
    ELSE [NoExtract EXCEPT !.pc = "done", !.n = n, !.raw = Some(resp),
                           !.result = Some(FillDefaults(resp.data))]

\* the first call_openai and what follows its answer
ExtractCall ==
    /\ output.pc = "call"
    /\ output' = Answered(input[1], 1)
    /\ UNCHANGED << fs, channel, loop, tasks, ntasks, invoices, logs, emitted, settings, clock, fsops,
                    faults, path_unique, watcher, live, calls, dirs, listing, input,
                    db, users, threads, lockers >>

\* a variant that takes the fields of the second answer whether or not the
\* schema accepts it
ExtractRetryAny ==
    /\ output.pc = "retry"
    /\ output' = IF input[2].kind = "invalid"
                  THEN [NoExtract EXCEPT !.pc = "done", !.n = 2, !.raw = Some(input[2]),
                                         !.result = Some(FillDefaults(input[2].data))]
                  ELSE Answered(input[2], 2)
    /\ UNCHANGED << fs, channel, loop, tasks, ntasks, invoices, logs, emitted, settings, clock, fsops,
                    faults, path_unique, watcher, live, calls, dirs, listing, input,
                    db, users, threads, lockers >>

\* the call with the fix prompt and what follows its answer
ExtractRetry ==
    /\ output.pc = "retry"
    /\ output' = Answered(input[2], 2)
    /\ UNCHANGED << fs, channel, loop, tasks, ntasks, invoices, logs, emitted, settings, clock, fsops,
                    faults, path_unique, watcher, live, calls, dirs, listing, input,
                    db, users, threads, lockers >>

\* the columns of a new Invoice that the task model does not carry
NewColumns ==
    [confidence_score |-> F64(0), invoice_date |-> None, due_date |-> None,
     counterparty_name |-> None, currency |-> "EUR", tax_amount |-> None, net_amount |-> None]

\* apply_extracted for these columns
apply_extracted_columns(cols, data) ==
    [cols EXCEPT !.invoice_date = normalize_date(data.invoice_date),
                 !.due_date = normalize_date(data.due_date),
                 !.counterparty_name = data.counterparty_name,
                 !.currency = IF IsSome(data.currency) THEN Unwrap(data.currency) ELSE @,
                 !.tax_amount = IF IsSome(data.tax_amount) THEN Some(format_decimal(Unwrap(data.tax_amount))) ELSE None,
                 !.net_amount = IF IsSome(data.net_amount) THEN Some(format_decimal(Unwrap(data.net_amount))) ELSE None,
                 !.confidence_score = IF IsSome(data.confidence_score)
                                      THEN Unwrap(data.confidence_score) ELSE F64(50)]

\* process_invoice line 79 after a successful extraction
ApplyExtracted ==
    /\ output.pc = "done"
    /\ IsSome(output.result)
    /\ output' = [output EXCEPT !.pc = "applied",
                                 !.columns = Some(apply_extracted_columns(NewColumns, Unwrap(output.result)))]
    /\ UNCHANGED << fs, channel, loop, tasks, ntasks, invoices, logs, emitted, settings, clock, fsops,
                    faults, path_unique, watcher, live, calls, dirs, listing, input,
                    db, users, threads, lockers >>

\* the remote service will give any two answers
ExtractInit ==
    /\ Idle
    /\ input \in {<< r1, r2 >> : r1 \in Responses, r2 \in Responses}
    /\ output = NoExtract

ExtractNext ==
    \/ ExtractCall
    \/ ExtractRetry
    \/ ApplyExtracted

ExtractSpec == ExtractInit /\ [][ExtractNext]_vars

(***************************************************************************)
(* The application started again: the store holds what an earlier session  *)
(* left, the files may have changed since and the folders may have been    *)
(* configured the other way round; setup scans the configured folders.     *)
(***************************************************************************)
\* the record an earlier session left for the file at p, processed when the
\* file had content 1 and modified-time 1, in the category of p's folder
EarlierRecord(p) ==
    [StampProcessed(
        apply_extracted(
            NewInvoice(1, FolderCategory(p), to_string_lossy(p), sha256_hex(1), rfc3339(1),
                       now_rfc3339(0)),
            ExtractedData(TextOf(1)), RawJson(TextOf(1), ExtractedData(TextOf(1)))),
        now_rfc3339(0))
     EXCEPT !.id = 0]

ResumeInit ==
    /\ fs \in [Paths -> {Absent} \cup {File(c, c) : c \in 1 .. MaxContent}]
    /\ invoices \in {{}} \cup {{EarlierRecord(p)} : p \in Paths}
    /\ settings \in Configs
    /\ path_unique \in BOOLEAN
    /\ channel = << >>
    /\ loop = IdleLoop
    /\ tasks = [t \in TaskIds |-> NoTask]
    /\ ntasks = 0
    /\ logs = << >>
    /\ emitted = << >>
    /\ clock = 1
    /\ fsops = 0
    /\ faults = 0
    /\ dirs = [f \in Folders |-> "dir"]
    /\ listing = {}
    /\ watcher = [lock |-> 0, slot |-> Some(WatcherSet(0, Watchers(settings, dirs)))]
    /\ live = {WatcherSet(0, Watchers(settings, dirs))}
    /\ calls = [c \in CallIds |-> NoCall]
    /\ input = << >>
    /\ output = << >>
    /\ db = FreeDb
    /\ users = [u \in StoreUsers |-> NoUser]
    /\ threads = [c \in ThreadIds |-> IF c = 0 THEN NewThread ELSE NoThread]
    /\ lockers = [u \in LockUsers |-> NoLocker]

\* enqueue_scan (setup, reprocess_all) and the steps of process_invoice in
\* the tasks it spawns
ResumeNext ==
    \/ EnqueueScan
    \/ \E t \in TaskIds : TaskHash(t)
    \/ \E t \in TaskIds : TaskMtime(t)
    \/ \E t \in TaskIds : TaskLookup(t)
    \/ \E t \in TaskIds : TaskWritePending(t)
    \/ \E t \in TaskIds : TaskExtractText(t)
    \/ \E t \in TaskIds : TaskWriteFinal(t)

ResumeSpec == ResumeInit /\ [][ResumeNext]_vars

(***************************************************************************)
(* The store lock. Every block that reaches the Database takes             *)
(* db.lock(), runs its operations on the guard and drops the guard at the  *)
(* end of the block. A thread is followed through the blocks of its        *)
(* handler: a spawned task through process_invoice and the Err arm of      *)
(* handle_event, the dispatch loop through the Deleted arm, a command      *)
(* through reprocess_invoice. A store operation takes time: it begins and  *)
(* it ends. So do the steps between the blocks: the fingerprint and the    *)
(* modified-time of the file, the text extraction with the credential and  *)
(* the remote extraction, the debounce sampling.                           *)
(***************************************************************************)
\* the operations each block makes under the guard; none for the steps that
\* lie between the blocks
StoreOps(site) ==
    CASE site = "lookup" -> << "get_invoice_by_path" >>
      [] site = "pending" -> << "upsert_invoice" >>
      [] site = "final" -> << "upsert_invoice", "log_processing" >>
      [] site = "err_lookup" -> << "get_invoice_by_path" >>
      [] site = "mark_failed" -> << "upsert_invoice", "log_processing" >>
      [] site = "deleted" -> << "mark_invoice_missing" >>
      [] site = "get_by_id" -> << "get_invoice_by_id" >>
      [] OTHER -> << >>

\* map_err(|_| ...) of each block
LockMessage(site) == IF site = "get_by_id" THEN "DB lock" ELSE "DB lock poisoned"

\* where the handler a thread runs can begin: handle_event with a deleted
\* or with a changed event, reprocess_invoice, process_invoice in a task
FirstSites(u) ==
    IF u = "loop" THEN {"deleted", "debounce"}
    ELSE IF u = "command" THEN {"get_by_id"} ELSE {"fingerprint"}

\* the thread comes to the block at site, or to the step at site that
\* takes no lock
At(r, site) ==
    [r EXCEPT !.site = site, !.pc = IF StoreOps(site) = << >> THEN "slow" ELSE "lock", !.i = 0]

\* the handler is over: what it returned and what it published
Ended(r, result, event) ==
    [r EXCEPT !.site = "", !.pc = "end", !.i = 0, !.result = result, !.event = event]

\* process_invoice returns Ok: handle_event emits invoice-updated, the
\* command returns Ok(())
ProcessOk(u, r) ==
    IF u = "command" THEN Ended(r, "ok", "") ELSE Ended(r, "ok", "invoice-updated")

\* process_invoice returns Err(msg): handle_event goes into its Err arm, the
\* command returns the message
ProcessErr(u, r, msg) ==
    IF u = "command" THEN Ended(r, msg, "") ELSE At([r EXCEPT !.result = msg], "err_lookup")

\* where the thread can go on after the block or step it is in, which has
\* run to its end ("ok"), failed to take the lock ("lock") or failed in an
\* operation ("sql") or in itself ("failed")
After(u, r, outcome) ==
    LET ok == outcome = "ok"
        msg == IF outcome = "lock" THEN LockMessage(r.site) ELSE "store error"
    IN  CASE r.site = "fingerprint" ->
               IF ok THEN {At(r, "lookup")} ELSE {ProcessErr(u, r, "Input/output error")}
          [] r.site = "lookup" ->
               IF ok THEN {ProcessOk(u, r), At(r, "pending")} ELSE {ProcessErr(u, r, msg)}
          [] r.site = "pending" ->
               IF ok THEN {At(r, "extraction")} ELSE {ProcessErr(u, r, msg)}
          [] r.site = "extraction" ->
               IF ok THEN {At(r, "final")} ELSE {ProcessErr(u, r, "extraction failed")}
          [] r.site = "debounce" ->
               {Ended(r, "", "")}
          [] r.site = "final" ->
               IF ok THEN {ProcessOk(u, r)} ELSE {ProcessErr(u, r, msg)}
          [] r.site = "err_lookup" ->
               IF ok THEN {At(r, "mark_failed"), Ended(r, r.result, "processing-error")}
               ELSE {Ended(r, r.result, "processing-error")}
          [] r.site = "mark_failed" ->
               {Ended([r EXCEPT !.marked = IF ok THEN "ok" ELSE msg], r.result, "processing-error")}
          [] r.site = "deleted" ->
               {Ended(r, "", "invoice-missing")}
          [] r.site = "get_by_id" ->
               IF ok THEN {At(r, "fingerprint"), Ended(r, "Invoice not found", "")}
               ELSE {Ended(r, msg, "")}

\* the rest of the state, which the blocks of this section leave alone
StoreRest ==
    << fs, channel, loop, tasks, ntasks, invoices, logs, emitted, settings, clock, fsops,
       path_unique, watcher, live, calls, dirs, listing, input, output, threads, lockers >>

\* a task is spawned, a deleted event is received, the command is invoked
Enter(u) ==
    /\ users[u].pc = "out"
    /\ \E site \in FirstSites(u) : users' = [users EXCEPT ![u] = At(NoUser, site)]
    /\ UNCHANGED << db, faults, StoreRest >>

\* a variant of the lock that lets a second thread in
DbLockNoWait(u) ==
    /\ users[u].pc = "lock"
    /\ IF db.poisoned
       THEN /\ \E r \in After(u, users[u], "lock") : users' = [users EXCEPT ![u] = r]
            /\ db' = db
       ELSE /\ db' = [db EXCEPT !.holder = u]
            /\ users' = [users EXCEPT ![u].pc = "held"]
    /\ UNCHANGED << faults, StoreRest >>

\* db.lock(): waits until the mutex is free; on a poisoned mutex the result
\* is Err, the guard inside it is dropped at once and the block is left
DbLock(u) ==
    /\ users[u].pc = "lock"
    /\ db.holder = ""
    /\ IF db.poisoned
       THEN /\ \E r \in After(u, users[u], "lock") : users' = [users EXCEPT ![u] = r]
            /\ db' = db
       ELSE /\ db' = [db EXCEPT !.holder = u]
            /\ users' = [users EXCEPT ![u].pc = "held"]
    /\ UNCHANGED << faults, StoreRest >>

\* the next operation of the block starts on the connection
StoreOpBegin(u) ==
    /\ users[u].pc = "held"
    /\ users[u].i < Len(StoreOps(users[u].site))
    /\ db' = [db EXCEPT !.active = @ \cup {u}]
    /\ users' = [users EXCEPT ![u].pc = "busy"]
    /\ UNCHANGED << faults, StoreRest >>

\* the operation returns: Ok, or an error that leaves the block through ?
\* (if let / let _ in handle_event), or the thread panics in it, which
\* poisons the mutex as the guard is dropped
StoreOpEnd(u) ==
    /\ users[u].pc = "busy"
    /\ LET released == IF db.holder = u THEN "" ELSE db.holder
       IN  \/ /\ Sound
              /\ db' = [db EXCEPT !.active = @ \ {u}]
              /\ users' = [users EXCEPT ![u] = [@ EXCEPT !.pc = "held", !.i = @ + 1]]
           \/ /\ Faulty
              /\ db' = [db EXCEPT !.active = @ \ {u}, !.holder = released]
              /\ \E r \in After(u, users[u], "sql") : users' = [users EXCEPT ![u] = r]
           \/ /\ Faulty
              /\ db' = [db EXCEPT !.active = @ \ {u}, !.holder = released, !.poisoned = TRUE]
              /\ users' = [users EXCEPT ![u] = Ended(@, "panicked", "")]
    /\ UNCHANGED StoreRest

\* a variant in which the guard of the intermediate write is kept until the
\* final write
DbUnlockLate(u) ==
    /\ users[u].pc = "held"
    /\ users[u].i = Len(StoreOps(users[u].site))
    /\ db' = [db EXCEPT !.holder = IF @ = u /\ users[u].site # "pending" THEN "" ELSE @]
    /\ \E r \in After(u, users[u], "ok") : users' = [users EXCEPT ![u] = r]
    /\ UNCHANGED << faults, StoreRest >>

\* sha256_file and modified_time_rfc3339; extract_from_pdf, decrypt_api_key
\* and extract_invoice_data; debounce_file_event: the step runs to its end
\* or fails, and touches no lock
SlowStep(u) ==
    /\ users[u].pc = "slow"
    /\ \E outcome \in {"ok", "failed"} :
          \E r \in After(u, users[u], outcome) : users' = [users EXCEPT ![u] = r]
    /\ UNCHANGED << db, faults, StoreRest >>

\* the end of the block: the guard is dropped
DbUnlock(u) ==
    /\ users[u].pc = "held"
    /\ users[u].i = Len(StoreOps(users[u].site))
    /\ db' = [db EXCEPT !.holder = IF @ = u THEN "" ELSE @]
    /\ \E r \in After(u, users[u], "ok") : users' = [users EXCEPT ![u] = r]
    /\ UNCHANGED << faults, StoreRest >>

StoreInit ==
    /\ Idle
    /\ input = << >>
    /\ output = << >>

StoreNext ==
    \/ \E u \in StoreUsers : Enter(u)
    \/ \E u \in StoreUsers : DbLock(u)
    \/ \E u \in StoreUsers : StoreOpBegin(u)
    \/ \E u \in StoreUsers : StoreOpEnd(u)
    \/ \E u \in StoreUsers : DbUnlock(u)
    \/ \E u \in StoreUsers : SlowStep(u)

StoreSpec == StoreInit /\ [][StoreNext]_vars

(***************************************************************************)
(* Channels and consumer threads. Every call of restart_watchers makes a   *)
(* channel of its own; the senders are the clones of tx the callbacks of   *)
(* the installed watchers own (start drops the tx it was given when it     *)
(* returns), the receiver is owned by the thread the call spawns. What     *)
(* handle_event does with an event is the dispatch loop's section; here a  *)
(* thread records the events it has handed to it.                          *)
(***************************************************************************)
\* the watchers whose callbacks hold a sender of the channel of call c
Senders(c) == UNION {s.watches : s \in {x \in live : x.by = c}}

\* what the callbacks of the watchers of call c send when something happens to
\* the file p: one event per watcher of the folder, with the watcher's category
Sent(c, p, kind, revenue_first) ==
    LET ev(category) ==
            IF Watch(FolderOf(p), category) \in Senders(c)
            THEN << FileEvent(p, category, kind) >>
            ELSE << >>
    IN  IF revenue_first THEN ev("revenue") \o ev("payable") ELSE ev("payable") \o ev("revenue")

\* a PDF is created in a folder: every installed watcher of the folder sends
FsCreate(p) ==
    /\ fsops < MaxFsOps
    /\ ~fs[p].exists
    /\ dirs[FolderOf(p)] # "missing"
    /\ fs' = [fs EXCEPT ![p] = File(1, 1)]
    /\ fsops' = fsops + 1
    /\ \E revenue_first \in BOOLEAN :
          threads' = [c \in ThreadIds |->
                        [threads[c] EXCEPT !.queue = @ \o Sent(c, p, "Created", revenue_first)]]
    /\ UNCHANGED << channel, loop, tasks, ntasks, invoices, logs, emitted, settings, clock, faults,
                    path_unique, watcher, live, calls, dirs, listing, input, output, db, users, lockers >>

\* for event in rx: the next event is received and handed to handle_event
ConsumerRecv(c) ==
    /\ threads[c].state = "running"
    /\ threads[c].queue # << >>
    /\ threads' = [threads EXCEPT ![c] = [@ EXCEPT !.queue = Tail(@),
                                                    !.handled = @ \cup {Head(threads[c].queue)}]]
    /\ UNCHANGED << fs, channel, loop, tasks, ntasks, invoices, logs, emitted, settings, clock, fsops,
                    faults, path_unique, watcher, live, calls, dirs, listing, input, output, db, users, lockers >>

\* a variant in which the thread ends as soon as the senders are gone
ConsumerEndAtOnce(c) ==
    /\ threads[c].state = "running"
    /\ Senders(c) = {}
    /\ threads' = [threads EXCEPT ![c] = [@ EXCEPT !.state = "ended", !.queue = << >>]]
    /\ UNCHANGED << fs, channel, loop, tasks, ntasks, invoices, logs, emitted, settings, clock, fsops,
                    faults, path_unique, watcher, live, calls, dirs, listing, input, output, db, users, lockers >>

\* the iteration over rx ends: the queue is empty and every sender is dropped
ConsumerEnd(c) ==
    /\ threads[c].state = "running"
    /\ threads[c].queue = << >>
    /\ Senders(c) = {}
    /\ threads' = [threads EXCEPT ![c].state = "ended"]
    /\ UNCHANGED << fs, channel, loop, tasks, ntasks, invoices, logs, emitted, settings, clock, fsops,
                    faults, path_unique, watcher, live, calls, dirs, listing, input, output, db, users, lockers >>

\* after AppState::new: no watcher and no thread yet, the folders there or
\* missing and empty, the stored settings naming any of them
LifeInit ==
    /\ dirs \in [Folders -> {"dir", "missing"}]
    /\ fs = [p \in Paths |-> Absent]
    /\ listing = {}
    /\ channel = << >>
    /\ loop = IdleLoop
    /\ tasks = [t \in TaskIds |-> NoTask]
    /\ ntasks = 0
    /\ invoices = {}
    /\ logs = << >>
    /\ emitted = << >>
    /\ settings \in {s \in Configs : s.openai_api_key = None}
    /\ clock = 1
    /\ fsops = 0
    /\ faults = 0
    /\ path_unique = TRUE
    /\ watcher = [lock |-> 0, slot |-> None]
    /\ live = {}
    /\ calls = [c \in CallIds |-> NoCall]
    /\ input = << >>
    /\ output = << >>
    /\ db = FreeDb
    /\ users = [u \in StoreUsers |-> NoUser]
    /\ threads = [c \in ThreadIds |-> NoThread]
    /\ lockers = [u \in LockUsers |-> NoLocker]

\* setup and the saves of the settings restart the watchers while files
\* arrive and the consumer threads run
LifeNext ==
    \/ \E c \in CallIds, s \in {x \in Configs : x.openai_api_key = None} : UpdateSettings(c, s)
    \/ \E c \in CallIds : CallRestart(c)
    \/ \E c \in CallIds : RestartLock(c)
    \/ \E c \in CallIds : RestartSnapshot(c)
    \/ \E c \in CallIds : RestartStart(c)
    \/ \E p \in Paths : FsCreate(p)
    \/ \E c \in ThreadIds : ConsumerRecv(c)
    \/ \E c \in ThreadIds : ConsumerEnd(c)

\* a consumer thread is a thread of its own and is always scheduled; a call
\* of a command is made or not
LifeSpec ==
    /\ LifeInit
    /\ [][LifeNext]_vars
    /\ \A c \in ThreadIds : WF_vars(ConsumerRecv(c)) /\ WF_vars(ConsumerEnd(c))

(***************************************************************************)
(* Startup. setup calls restart_watchers and then enqueue_scan on the same *)
(* thread, once, before the state is managed and any command can run.      *)
(***************************************************************************)
\* the call of restart_watchers that setup makes
SetupCall == 1

\* a variant of setup that runs the scan before it restarts the watchers
SetupScanFirst(c) ==
    /\ calls[c].pc = "restart"
    /\ calls[c].kind = "restart"
    /\ \E entries \in ScanEntries :
          /\ ntasks + Len(entries) <= MaxTasks
          /\ tasks' = [t \in TaskIds |->
                          IF t > ntasks /\ t <= ntasks + Len(entries)
                          THEN NewTask("scan", entries[t - ntasks][1], entries[t - ntasks][2])
                          ELSE tasks[t]]
          /\ ntasks' = ntasks + Len(entries)
    /\ calls' = [calls EXCEPT ![c].kind = "setup"]
    /\ UNCHANGED << fs, channel, loop, invoices, logs, emitted, settings, clock, fsops, faults,
                    path_unique, watcher, live, dirs, listing, input, output, db, users, threads, lockers >>

\* state.enqueue_scan(app.handle())? of setup, reached when restart_watchers
\* returned Ok: one task per PDF of the configured folders (kind "setup"
\* marks the call as the one whose scan has run)
SetupScan(c) ==
    /\ calls[c].pc = "done"
    /\ calls[c].kind = "restart"
    /\ calls[c].result = "ok"
    /\ \E entries \in ScanEntries :
          /\ ntasks + Len(entries) <= MaxTasks
          /\ tasks' = [t \in TaskIds |->
                          IF t > ntasks /\ t <= ntasks + Len(entries)
                          THEN NewTask("scan", entries[t - ntasks][1], entries[t - ntasks][2])
                          ELSE tasks[t]]
          /\ ntasks' = ntasks + Len(entries)
    /\ calls' = [calls EXCEPT ![c].kind = "setup"]
    /\ UNCHANGED << fs, channel, loop, invoices, logs, emitted, settings, clock, fsops, faults,
                    path_unique, watcher, live, dirs, listing, input, output, db, users, threads, lockers >>

\* after AppState::new: no watcher and no thread yet; the folders in any
\* condition, holding any of the files; the stored settings naming any of them
StartupInit ==
    /\ dirs \in [Folders -> {"dir", "missing", "locked"}]
    /\ fs \in [Paths -> {Absent, File(1, 1)}]
    /\ \A p \in Paths : fs[p].exists => dirs[FolderOf(p)] # "missing"
    /\ listing = {}
    /\ channel = << >>
    /\ loop = IdleLoop
    /\ tasks = [t \in TaskIds |-> NoTask]
    /\ ntasks = 0
    /\ invoices = {}
    /\ logs = << >>
    /\ emitted = << >>
    /\ settings \in {s \in Configs : s.openai_api_key = None}
    /\ clock = 1
    /\ fsops = 0
    /\ faults = 0
    /\ path_unique = TRUE
    /\ watcher = [lock |-> 0, slot |-> None]
    /\ live = {}
    /\ calls = [c \in CallIds |-> NoCall]
    /\ input = << >>
    /\ output = << >>
    /\ db = FreeDb
    /\ users = [u \in StoreUsers |-> NoUser]
    /\ threads = [c \in ThreadIds |-> NoThread]
    /\ lockers = [u \in LockUsers |-> NoLocker]

\* setup runs once while files arrive and the consumer thread runs
StartupNext ==
    \/ CallRestart(SetupCall)
    \/ RestartLock(SetupCall)
    \/ RestartSnapshot(SetupCall)
    \/ RestartStart(SetupCall)
    \/ SetupScan(SetupCall)
    \/ \E p \in Paths : FsCreate(p)
    \/ \E c \in ThreadIds : ConsumerRecv(c)
    \/ \E c \in ThreadIds : ConsumerEnd(c)

StartupSpec == StartupInit /\ [][StartupNext]_vars

(***************************************************************************)
(* The three locks: AppState.db (store), AppState.settings (settings) and  *)
(* AppState.watcher (watcher). An operation is the sequence of its lock    *)
(* requests and guard drops, in the order of its code; what it does under  *)
(* a guard is the other sections'. A std::sync::Mutex is not re-entrant: a *)
(* request for a lock that is held waits, whoever holds it.                *)
(***************************************************************************)
\* a block or statement that takes the lock and drops the guard at its end
Scoped(l) == << << "lock", l >>, << "unlock", l >> >>

\* restart_watchers: the watcher guard from the first line to the return,
\* the settings guard for the clone of the settings inside it
restart_watchers == << << "lock", "watcher" >> >> \o Scoped("settings") \o << << "unlock", "watcher" >> >>

\* a variant of update_settings without the block around the settings guard
update_settings_unscoped ==
    << << "lock", "settings" >> >> \o restart_watchers \o << << "unlock", "settings" >> >>

\* update_settings: the settings guard in a block of its own, then restart_watchers
update_settings == Scoped("settings") \o restart_watchers

\* the lock requests and guard drops of an operation
LockScript(op) ==
    LET process_invoice == Scoped("store") \o Scoped("store") \o Scoped("store")
        mark_failed == Scoped("store")
        enqueue_scan == Scoped("settings")
    IN  CASE op = "setup" -> restart_watchers \o enqueue_scan
          [] op = "save_settings" -> Scoped("store") \o Scoped("store") \o update_settings
          [] op = "reprocess_all" -> enqueue_scan
          [] op = "reprocess_invoice" -> Scoped("store") \o Scoped("settings") \o process_invoice
          [] op = "get_invoices" -> Scoped("store")
          [] op = "scan_task" -> Scoped("settings") \o process_invoice
          [] op = "watcher_task" ->
                Scoped("settings") \o process_invoice \o Scoped("store") \o mark_failed
          [] op = "handle_event" -> Scoped("store")

\* the threads that hold the lock
Holders(l) == {v \in LockUsers : \E k \in DOMAIN lockers[v].held : lockers[v].held[k] = l}

\* a thread enters an operation: a command is invoked, a task is spawned,
\* the dispatch loop receives a Deleted event
LockBegin(u, op) ==
    /\ lockers[u].rest = << >>
    /\ op \in (CASE u = "task1" -> {"scan_task", "watcher_task"}
                 [] u = "loop" -> {"handle_event"}
                 [] OTHER -> {"setup", "save_settings", "reprocess_all", "reprocess_invoice",
                              "get_invoices"})
    /\ lockers' = [lockers EXCEPT ![u] = [op |-> op, rest |-> LockScript(op), held |-> << >>]]
    /\ UNCHANGED << fs, channel, loop, tasks, ntasks, invoices, logs, emitted, settings, clock, fsops,
                    faults, path_unique, watcher, live, calls, dirs, listing, input, output, db,
                    users, threads >>

\* Mutex::lock returns once nobody holds the lock; a guard is dropped
LockStep(u) ==
    /\ lockers[u].rest # << >>
    /\ LET step == Head(lockers[u].rest)
           held == lockers[u].held
       IN  IF step[1] = "lock"
           THEN /\ Holders(step[2]) = {}
                /\ lockers' = [lockers EXCEPT ![u] = [@ EXCEPT !.rest = Tail(@),
                                                              !.held = Append(held, step[2])]]
           ELSE lockers' = [lockers EXCEPT ![u] =
                              [@ EXCEPT !.rest = Tail(@),
                                        !.held = SelectSeq(held, LAMBDA l : l # step[2])]]
    /\ UNCHANGED << fs, channel, loop, tasks, ntasks, invoices, logs, emitted, settings, clock, fsops,
                    faults, path_unique, watcher, live, calls, dirs, listing, input, output, db,
                    users, threads >>

\* what is done under a guard fails and the error is returned (? or an early
\* return): the operation ends there and every guard it holds is dropped
LockReturn(u) ==
    /\ lockers[u].rest # << >>
    /\ Head(lockers[u].rest)[1] = "unlock"
    /\ lockers' = [lockers EXCEPT ![u] = [@ EXCEPT !.rest = << >>, !.held = << >>]]
    /\ UNCHANGED << fs, channel, loop, tasks, ntasks, invoices, logs, emitted, settings, clock, fsops,
                    faults, path_unique, watcher, live, calls, dirs, listing, input, output, db,
                    users, threads >>

LockInit == Idle /\ input = << >> /\ output = << >>

LockNext ==
    \/ \E u \in LockUsers, op \in {"setup", "save_settings", "reprocess_all", "reprocess_invoice",
                                   "get_invoices", "scan_task", "watcher_task", "handle_event"} :
          LockBegin(u, op)
    \/ \E u \in LockUsers : LockStep(u)
    \/ \E u \in LockUsers : LockReturn(u)

LockSpec == LockInit /\ [][LockNext]_vars

(***************************************************************************)
(* Properties.                                                             *)
(***************************************************************************)
\* the rows of the table that belong to the file at path p
RowsOf(tbl, p) == {r \in tbl : r.file_path = Some(to_string_lossy(p))}

\* C1: when the lookup of process_invoice finds a record whose fingerprint
\* and modified-time equal the file's, the call ends in that step with the
\* stored record as its result, having run no text extraction and no
\* structured extraction and written nothing: the table and the log are
\* unchanged by it.
C1_Idempotent ==
    [][\A t \in TaskIds :
          LET tk == tasks[t]
              tk2 == tasks'[t]
          IN  ( /\ tk.pc = "lookup"
                /\ IsSome(tk2.existing)
                /\ Unwrap(tk2.existing).file_hash = Unwrap(tk.file_hash)
                /\ Unwrap(tk2.existing).file_modified_at = Unwrap(tk.file_modified_at) )
              => /\ tk2.pc = "done"
                 /\ tk2.outcome = "ok"
                 /\ tk2.invoice = tk2.existing
                 /\ Unwrap(tk2.existing) \in invoices
                 /\ invoices' = invoices
                 /\ logs' = logs
                 /\ tk2.text_calls = 0 /\ tk2.ai_calls = 0 /\ tk2.writes = 0]_vars

\* a call short-circuited on a record that an earlier call left in the store
C1_Witness ==
    \E t \in TaskIds :
        /\ tasks[t].pc = "done" /\ tasks[t].outcome = "ok"
        /\ IsSome(tasks[t].existing)
        /\ tasks[t].invoice = tasks[t].existing
        /\ tasks[t].writes = 0 /\ tasks[t].text_calls = 0 /\ tasks[t].ai_calls = 0
        /\ Unwrap(tasks[t].existing) \in invoices

\* the record a successful re-extraction must leave for the record e it found
C2_Updated(r, e, tk) ==
    LET text == Unwrap(tk.text)
        data == ExtractedData(text)
    IN  /\ r.id = e.id
        /\ r.file_path = e.file_path
        /\ r.file_hash = Unwrap(tk.file_hash)
        /\ r.file_modified_at = Unwrap(tk.file_modified_at)
        /\ r.ingestion_status = "processed"
        /\ r.ocr_text = Some(text)
        /\ r.extracted_json = RawJson(text, data)
        /\ r.invoice_number = data.invoice_number
        /\ IsSome(data.total_amount) => r.total_amount = format_decimal(Unwrap(data.total_amount))

\* C2: when process_invoice found a record for the path whose fingerprint
\* differs from the file's and the call succeeds, text and structured
\* extraction were each run once by it, and its final write leaves a record
\* with the id found, the new fingerprint and modified-time, the fields just
\* extracted and status processed, and appends exactly one log entry:
\* success, keyed by that id and the new fingerprint.
C2_ChangeDetection ==
    [][\A t \in TaskIds :
          LET tk == tasks[t]
              tk2 == tasks'[t]
          IN  ( /\ tk.pc = "final" /\ tk2.pc = "done" /\ tk2.outcome = "ok"
                /\ IsSome(tk.existing)
                /\ Unwrap(tk.existing).file_hash # Unwrap(tk.file_hash) )
              => /\ tk2.text_calls = 1 /\ tk2.ai_calls = 1
                 /\ \E r \in invoices' : C2_Updated(r, Unwrap(tk.existing), tk)
                 /\ tk2.invoice \in {Some(r) : r \in invoices'}
                 /\ logs' = Append(logs, [invoice_id |-> Unwrap(tk.existing).id,
                                          file_hash |-> Unwrap(tk.file_hash),
                                          process_type |-> "process",
                                          status |-> "success", message |-> None])]_vars

\* a changed file was processed again into the record it already had
C2_Witness ==
    \E t \in TaskIds :
        /\ tasks[t].pc = "done" /\ tasks[t].outcome = "ok"
        /\ IsSome(tasks[t].existing)
        /\ Unwrap(tasks[t].existing).file_hash # Unwrap(tasks[t].file_hash)
        /\ Unwrap(tasks[t].existing).ingestion_status = "processed"
        /\ \E r \in invoices : C2_Updated(r, Unwrap(tasks[t].existing), tasks[t])

\* C3: in every reachable state, whatever the interleaving of watcher, scan
\* and reprocess tasks, failure marking and delete events, the table holds
\* at most one record for each source path.
C3_OneRecordPerPath ==
    \A r1 \in invoices : \A r2 \in invoices :
        r1.file_path = r2.file_path => r1 = r2

\* C4: once a path has a record, every step leaves each record of that path
\* with an id and a created timestamp that a record of the path already had:
\* no write gives a recorded path a new id or a new created timestamp.
C4_IdentityImmutable ==
    [][\A r2 \in invoices' :
          (\E r \in invoices : r.file_path = r2.file_path)
          => \E r \in invoices : /\ r.file_path = r2.file_path
                                 /\ r.id = r2.id
                                 /\ r.created_at = r2.created_at]_vars

\* the changes of ingestion status the lifecycle allows
StatusChangeAllowed(from, to) ==
    \/ from = to
    \/ to = "missing"
    \/ to = "pending"
    \/ from = "pending" /\ to \in {"processed", "failed"}

\* C5: every step changes the ingestion status of a stored record only from
\* pending to processed, from pending to failed, from anything to missing,
\* or back to pending (the intermediate write of a new run); never from
\* processed to failed, failed to processed, or missing to processed/failed.
C5_StatusTransitions ==
    [][\A r \in invoices : \A r2 \in invoices' :
          r.id = r2.id => StatusChangeAllowed(r.ingestion_status, r2.ingestion_status)]_vars

\* the dispatch loop takes a deleted event off the channel in this step
DeletedHandled ==
    /\ loop.pc = "recv"
    /\ channel # << >>
    /\ Head(channel).kind = "Deleted"
    /\ channel' = Tail(channel)

\* C6: the step that handles a deleted event for a path turns every record
\* of the path into the same record with status missing and a new updated
\* timestamp, leaves every other record as it is, starts no debounce and no
\* task, and publishes one invoice-missing notification carrying the path;
\* and no step of any operation removes a record (by id) from the table.
C6_Deletion ==
    [][/\ DeletedHandled =>
            LET p == to_string_lossy(Head(channel).path)
            IN  /\ \A r \in invoices :
                      IF r.file_path = Some(p)
                      THEN \E r2 \in invoices' :
                              /\ r2.ingestion_status = "missing"
                              /\ r2 = [r EXCEPT !.ingestion_status = "missing",
                                                !.updated_at = r2.updated_at]
                      ELSE r \in invoices'
                /\ Cardinality(invoices') = Cardinality(invoices)
                /\ loop' = loop /\ tasks' = tasks /\ ntasks' = ntasks /\ logs' = logs
                /\ emitted' = Append(emitted, InvoiceMissing(p))
       /\ \A r \in invoices : \E r2 \in invoices' : r2.id = r.id]_vars

\* the extracted fields of a record
ExtractedFields(r) == << r.ocr_text, r.extracted_json, r.invoice_number, r.total_amount >>

\* task t ran to its end as the race scenario has it: it succeeded, or it
\* failed after its intermediate write and the coordinator marked the record
Completed(t) ==
    /\ tasks[t].pc = "done"
    /\ \/ tasks[t].outcome = "ok"
       \/ /\ tasks[t].outcome = "err"
          /\ tasks[t].writes >= 1
          /\ tasks[t].marked

\* record r is the outcome of task t: the record t returned, or, for a task
\* that failed, t's own record (as it wrote it, as it stood after the text
\* extraction or as it stood at the final write) with status failed
OutcomeOf(r, t) ==
    LET tk == tasks[t]
        inv == Unwrap(tk.invoice)
    IN  IF tk.outcome = "ok"
        THEN r = inv
        ELSE /\ r.ingestion_status = "failed"
             /\ r.file_hash = inv.file_hash
             /\ r.file_modified_at = inv.file_modified_at
             /\ \/ ExtractedFields(r) = ExtractedFields(PendingInvoice(t, tk, 0))
                \/ ExtractedFields(r) = ExtractedFields(inv)
                \/ /\ tk.ai_calls = 1
                   /\ ExtractedFields(r) =
                        ExtractedFields(ProcessedInvoice(tk, ExtractedData(Unwrap(tk.text)), 0))

\* no deleted event was handled for the path of the string p
NotDeleted(p) == \A i \in DOMAIN emitted : emitted[i] # InvoiceMissing(p)

\* C7: when two tasks for the same path have both completed (each succeeded,
\* or failed and was marked failed), no other task for the path is in flight
\* and the file was not deleted, every stored record of the path is the
\* outcome of one of the two tasks (status, fingerprint, modified-time and
\* extracted fields all from that task) and is not pending.
C7_SamePathRace ==
    \A t1 \in TaskIds : \A t2 \in TaskIds :
        ( /\ t1 # t2
          /\ to_string_lossy(tasks[t1].path) = to_string_lossy(tasks[t2].path)
          /\ Completed(t1) /\ Completed(t2)
          /\ \A t3 \in TaskIds :
                to_string_lossy(tasks[t3].path) = to_string_lossy(tasks[t1].path)
                => tasks[t3].pc = "done"
          /\ NotDeleted(to_string_lossy(tasks[t1].path)) )
        => \A r \in RowsOf(invoices, tasks[t1].path) :
              /\ r.ingestion_status # "pending"
              /\ OutcomeOf(r, t1) \/ OutcomeOf(r, t2)

\* C8: once a task has failed after its intermediate write, whatever entry
\* point started it, the log holds a failed entry with its error message for
\* a record of its path, and when no task for the path is in flight no
\* record of the path is left pending.
C8_FailureBookkeeping ==
    \A t \in TaskIds :
        (tasks[t].pc = "done" /\ tasks[t].outcome = "err" /\ tasks[t].writes >= 1)
        => /\ \E i \in DOMAIN logs :
                 /\ logs[i].status = "failed"
                 /\ logs[i].message = Some(tasks[t].err)
                 /\ logs[i].file_hash = Unwrap(tasks[t].invoice).file_hash
           /\ (\A t3 \in TaskIds :
                  to_string_lossy(tasks[t3].path) = to_string_lossy(tasks[t].path)
                  => tasks[t3].pc = "done")
              => \A r \in RowsOf(invoices, tasks[t].path) : r.ingestion_status # "pending"

\* C9: a step in which a watcher task fails at fingerprinting, at the
\* modified-time or at the lookup, before any write of its own, changes
\* neither the table nor the log and publishes nothing; and the error arm's
\* step for such a task, when the path has no record, changes neither the
\* table nor the log and publishes exactly one processing-error
\* notification with the error's message, which ends the task.
C9_FailureBeforeRecord ==
    [][\A t \in TaskIds :
          LET tk == tasks[t]
              tk2 == tasks'[t]
          IN  /\ ( /\ tk.origin = "watcher"
                   /\ tk.pc \in {"start", "mtime", "lookup"}
                   /\ tk2.pc = "failed" )
                 => /\ tk2.writes = 0
                    /\ invoices' = invoices
                    /\ logs' = logs
                    /\ emitted' = emitted
              /\ ( /\ tk.pc = "failed" /\ tk2.pc # "failed"
                   /\ tk.writes = 0
                   /\ RowsOf(invoices, tk.path) = {} )
                 => /\ tk2.pc = "done"
                    /\ ~tk2.marked
                    /\ invoices' = invoices
                    /\ logs' = logs
                    /\ emitted' = Append(emitted, ProcessingError(tk.err))]_vars

\* a watcher task failed at fingerprinting for a path without a record: the
\* table and the log are empty and the one notification is the error
C9_Witness ==
    \E t \in TaskIds :
        /\ tasks[t].origin = "watcher" /\ tasks[t].pc = "done"
        /\ tasks[t].outcome = "err" /\ tasks[t].writes = 0
        /\ tasks[t].file_hash = None
        /\ invoices = {} /\ logs = << >>
        /\ emitted = << ProcessingError(tasks[t].err) >>

\* task t fails in this step: process_invoice returns an error
FailsNow(t) == tasks[t].outcome # "err" /\ tasks'[t].outcome = "err"

\* C10: a step in which one task fails, at whichever step of its
\* processing, leaves the dispatch loop, the event channel and every other
\* task as they were; and once some task has failed, every other task in
\* flight still reaches its end and every event still waiting in the channel
\* is still taken by the dispatch loop.
C10_Isolation ==
    /\ [][\A t \in TaskIds :
            FailsNow(t) => /\ loop' = loop
                           /\ channel' = channel
                           /\ ntasks' = ntasks
                           /\ \A u \in TaskIds \ {t} : tasks'[u] = tasks[u]]_vars
    /\ \A t \in TaskIds : \A u \in TaskIds \ {t} :
          (tasks[t].outcome = "err" /\ tasks[u].pc \notin {"unspawned", "done"})
              ~> (tasks[u].pc = "done")
    /\ \A t \in TaskIds : \A n \in 1 .. MaxFsOps :
          (tasks[t].outcome = "err" /\ Len(channel) = n) ~> (Len(channel) < n)

\* one task has failed while another one, in flight at that time, went on
\* to succeed
C10_Witness ==
    \E t \in TaskIds : \E u \in TaskIds \ {t} :
        /\ tasks[t].outcome = "err" /\ tasks[t].pc = "done"
        /\ tasks[u].outcome = "ok" /\ tasks[u].writes = 2
        /\ \E i \in DOMAIN emitted : \E j \in DOMAIN emitted :
              /\ i < j
              /\ emitted[i].event = "processing-error"
              /\ emitted[j].event = "invoice-updated"

\* C11: a task spawned from a watcher event or by a scan publishes nothing
\* in a step that does not end it, and the step that ends it publishes
\* exactly one notification: invoice-updated with the record process_invoice
\* returned when it succeeded, processing-error with the error's message
\* when it failed.
C11_OneNotification ==
    [][\A t \in TaskIds :
          LET tk == tasks[t]
              tk2 == tasks'[t]
          IN  ( /\ tk.origin \in {"watcher", "scan"}
                /\ tk2 # tk )
              => IF tk2.pc = "done"
                 THEN emitted' = Append(emitted,
                                    IF tk2.outcome = "ok"
                                    THEN InvoiceUpdated(Unwrap(tk2.invoice))
                                    ELSE ProcessingError(tk2.err))
                 ELSE emitted' = emitted]_vars

\* a scan task has succeeded and a watcher task has failed and been marked:
\* two tasks, two notifications, one of each kind
C11_Witness ==
    \E t \in TaskIds : \E u \in TaskIds :
        /\ tasks[t].origin = "scan" /\ tasks[t].pc = "done" /\ tasks[t].outcome = "ok"
        /\ tasks[u].origin = "watcher" /\ tasks[u].pc = "done" /\ tasks[u].outcome = "err"
        /\ tasks[u].marked
        /\ Len(emitted) = 2
        /\ {emitted[1].event, emitted[2].event} = {"invoice-updated", "processing-error"}

\* the dispatch loop takes one size sample in this step
Samples == loop.pc = "debounce" /\ loop' # loop

\* the event being debounced is judged stable: one task is spawned for it
JudgedStable ==
    /\ loop' = IdleLoop
    /\ ntasks' = ntasks + 1
    /\ tasks' = [tasks EXCEPT ![ntasks + 1] =
                    NewTask("watcher", Unwrap(loop.event).path, Unwrap(loop.event).category)]

\* the event being debounced is dropped: no task, no write, no notification,
\* and the event is not put back
Dropped ==
    /\ loop' = IdleLoop
    /\ tasks' = tasks /\ ntasks' = ntasks
    /\ invoices' = invoices /\ logs' = logs /\ emitted' = emitted
    /\ channel' = channel

\* C12: debounce_file_event takes at most three samples. A sample that
\* cannot stat the file drops the event; a sample equal to the one before
\* it ends the sampling at once, stable (one task is spawned) when the size
\* is nonzero and dropped when it is zero; a first or second sample that
\* decides nothing only records its size. A dropped event spawns no task,
\* writes nothing, publishes nothing and is not queued again.
C12_DebounceDecision ==
    [][Samples =>
          LET f == FileAt(Unwrap(loop.event).path)
              size == Size(f.content)
          IN  /\ loop.samples <= 2
              /\ loop.samples = 2 => loop'.pc = "recv"
              /\ ~f.exists => Dropped
              /\ (f.exists /\ loop.last_size = Some(size) /\ size > 0) => JudgedStable
              /\ (f.exists /\ loop.last_size = Some(size) /\ size = 0) => Dropped
              /\ (f.exists /\ loop.last_size # Some(size) /\ loop.samples < 2)
                 => /\ loop' = [loop EXCEPT !.samples = @ + 1, !.last_size = Some(size)]
                    /\ UNCHANGED << tasks, ntasks, invoices, logs, emitted, channel >>]_vars

\* an empty file was created and its event dropped, while the event of a
\* file with content passed: all events are handled and the only task is
\* the one of the file with content
C12_Witness ==
    /\ channel = << >> /\ loop = IdleLoop
    /\ ntasks = 1
    /\ \E p \in Paths : \E q \in Paths \ {p} :
          /\ fs[p].exists /\ Size(fs[p].content) = 0
          /\ fs[q].exists /\ Size(fs[q].content) > 0
          /\ tasks[1].path = q

\* C13: when the third sample differs from the second (which differed from
\* the first, or the sampling would have ended), the file is still being
\* written: the event is dropped and no task is spawned.
C13_StillGrowing ==
    [][( /\ Samples
         /\ loop.samples = 2
         /\ FileAt(Unwrap(loop.event).path).exists
         /\ loop.last_size # Some(Size(FileAt(Unwrap(loop.event).path).content)) )
       => Dropped]_vars

\* the watcher tasks spawned for the file at p
SpawnedFor(p) == {t \in TaskIds : tasks[t].origin = "watcher" /\ tasks[t].path = p}

\* p was written in one burst: it exists with content, it was never removed
\* (no deleted event for it is queued or was handled)
OneBurst(p) ==
    /\ fs[p].exists /\ Size(fs[p].content) > 0
    /\ IsSome(to_str(p))
    /\ NotDeleted(Unwrap(to_str(p)))
    /\ \A i \in DOMAIN channel : ~(channel[i].path = p /\ channel[i].kind = "Deleted")

\* C14: for a file written in one burst of growing chunks, at most one of
\* the burst's notifications passes the debounce and spawns a task.
C14_OneTaskPerBurst ==
    \A p \in Paths : OneBurst(p) => Cardinality(SpawnedFor(p)) <= 1


\* the watchers a restart is to install for a settings snapshot: one
\* non-recursive watcher per configured (folder, category) whose folder exists
ExpectedWatches(snap) ==
    {w \in [folder : Folders, category : {"revenue", "payable"}, mode : {"NonRecursive", "Recursive"}] :
        /\ w.mode = "NonRecursive"
        /\ dirs[w.folder] # "missing"
        /\ \/ w.category = "revenue" /\ snap.revenue_folder = << w.folder >>
           \/ w.category = "payable" /\ snap.payable_folder = << w.folder >>}

\* C15: restart_watchers releases the installed watcher set before it
\* installs a new one, so at no time are two watcher sets installed; when it
\* returns successfully the installed set is the only one and holds exactly
\* one non-recursive watcher for each configured (folder, category) pair
\* whose folder existed; a configured folder that is missing is left out and
\* does not make the call fail (it fails only when creating a watcher fails).
C15_WatcherLifecycle ==
    [][/\ Cardinality(live) <= 1
       /\ Cardinality(live') <= 1
       /\ \A c \in CallIds :
            (calls[c].pc = "start" /\ calls'[c].pc = "done") =>
                /\ (faults' = faults) => calls'[c].result = "ok"
                /\ calls'[c].result = "ok" =>
                      /\ watcher'.slot # << >>
                      /\ live' = {watcher'.slot[1]}
                      /\ watcher'.slot[1].watches = ExpectedWatches(calls[c].snapshot[1])]_vars

\* two calls have returned successfully, the second replaced the set of the
\* first, and the installed set leaves out a configured folder that is missing
C15_Witness ==
    /\ \A c \in CallIds : calls[c].pc = "done" /\ calls[c].result = "ok"
    /\ dirs["payable"] = "missing"
    /\ watcher.slot # << >>
    /\ calls[watcher.slot[1].by].snapshot[1].payable_folder = << "payable" >>
    /\ calls[watcher.slot[1].by].snapshot[1].revenue_folder = << "revenue" >>
    /\ watcher.slot[1].watches = {Watch("revenue", "revenue")}
    /\ live = {watcher.slot[1]}

\* every call made so far has returned, and successfully
AllReturnedOk ==
    /\ \A c \in CallIds : calls[c].pc \in {"idle", "done"}
    /\ \A c \in CallIds : calls[c].pc = "done" => calls[c].result = "ok"
    /\ \E c \in CallIds : calls[c].pc = "done"

\* C16: update_settings replaces the stored settings by the value it is given
\* and then restarts the watchers; once all the interleaved calls of
\* update_settings and restart_watchers have returned successfully, the one
\* installed watcher set is the set built from the settings stored at that
\* moment, never a set built from a value that has been replaced.
C16_RestartFollowsSettings ==
    [][/\ \A c \in CallIds, s \in Configs :
            UpdateSettings(c, s) => settings' = s /\ calls'[c].pc = "restart"
       /\ AllReturnedOk' =>
            /\ watcher'.slot # << >>
            /\ live' = {watcher'.slot[1]}
            /\ watcher'.slot[1].watches = ExpectedWatches(settings')
            /\ calls'[watcher'.slot[1].by].snapshot = << settings' >>]_vars

\* two calls of update_settings stored different folders, both returned
\* successfully, and the installed set watches the folder stored last
C16_Witness ==
    /\ AllReturnedOk
    /\ \A c \in CallIds : calls[c].kind = "update" /\ calls[c].pc = "done"
    /\ settings.revenue_folder = << "payable" >>
    /\ settings.payable_folder = << >>
    /\ dirs["payable"] = "dir"
    /\ watcher.slot # << >>
    /\ watcher.slot[1].watches = {Watch("payable", "revenue")}
    /\ \E c \in CallIds : calls[c].snapshot # << settings >>

\* the entries a scan of a folder is to dispatch: the regular files that lie
\* directly in the folder and whose extension is pdf in any letter case;
\* none when the folder is missing or cannot be read
PdfFilesIn(folder) ==
    IF dirs[folder] # "dir" THEN {}
    ELSE {e \in WatchedEntries \cup listing :
            /\ e.parent = folder
            /\ e.kind = "file"
            /\ e.ext \in {<< x >> : x \in {"pdf", "PDF", "Pdf", "pDf"}}}

\* the (path, category) pairs a scan is to dispatch under the stored settings
ToDispatch ==
    {<< e.path, "revenue" >> : e \in UNION {PdfFilesIn(f) : f \in {g \in Folders : settings.revenue_folder = << g >>}}}
    \cup
    {<< e.path, "payable" >> : e \in UNION {PdfFilesIn(f) : f \in {g \in Folders : settings.payable_folder = << g >>}}}

\* C17: enqueue_scan spawns, for each configured folder, exactly one task
\* for every regular file directly in the folder whose extension is pdf in
\* any letter case, with the folder's category, and no task for anything
\* else; a folder that is missing or cannot be listed gives no task, and
\* nothing but the tasks changes.
C17_ScanDispatch ==
    [][/\ ntasks' # ntasks =>
            /\ ntasks' = ntasks + Cardinality(ToDispatch)
            /\ \A d \in ToDispatch :
                  Cardinality({t \in (ntasks + 1) .. ntasks' :
                                  tasks'[t].path = d[1] /\ tasks'[t].category = d[2]}) = 1
            /\ \A t \in (ntasks + 1) .. ntasks' :
                  /\ << tasks'[t].path, tasks'[t].category >> \in ToDispatch
                  /\ tasks'[t].origin = "scan"
                  /\ tasks'[t].pc = "start"
            /\ \A t \in 1 .. ntasks : tasks'[t] = tasks[t]
            /\ emitted' = emitted /\ invoices' = invoices /\ logs' = logs
       /\ ToDispatch = {} => ntasks' = ntasks]_vars

\* a scan of two folders holding every kind of entry has spawned a task for
\* the upper-case PDF of the first and the PDF of the second, and only these
C17_Witness ==
    /\ listing = OtherEntries
    /\ settings.revenue_folder = << "revenue" >>
    /\ settings.payable_folder = << "payable" >>
    /\ ~fs[GoodPath].exists
    /\ ntasks = 2
    /\ {<< tasks[t].path, tasks[t].category >> : t \in 1 .. ntasks}
          = {<< "revenue/c.PDF", "revenue" >>, << RawPath, "payable" >>}

\* enqueue_scan has just spawned its two tasks: both folders are configured,
\* each holds one PDF no record exists for, and the credential is stored
ScanOfTwoNew ==
    /\ settings.revenue_folder = << "revenue" >> /\ settings.payable_folder = << "payable" >>
    /\ settings.openai_api_key # << >>
    /\ fs[GoodPath].exists /\ fs[RawPath].exists
    /\ invoices = {} /\ emitted = << >>
    /\ ntasks = 2
    /\ tasks[1].origin = "scan" /\ tasks[1].pc = "start" /\ tasks[1].path = GoodPath
    /\ tasks[2].origin = "scan" /\ tasks[2].pc = "start" /\ tasks[2].path = RawPath

\* two record-updated notifications, and two processed records with the
\* categories of their folders and distinct ids
TwoProcessed ==
    /\ Cardinality({i \in DOMAIN emitted : emitted[i].event = "invoice-updated"}) = 2
    /\ \E r \in invoices : \E q \in invoices :
          /\ r.id # q.id
          /\ r.file_path = << GoodPath >> /\ r.category = "revenue" /\ r.ingestion_status = "processed"
          /\ q.file_path = << LossyName >> /\ q.category = "payable" /\ q.ingestion_status = "processed"
    /\ Cardinality(invoices) = 2

\* C18: after enqueue_scan over a revenue and a payable folder that hold one
\* new PDF each, and unless a collaborator fails or a file is touched in the
\* meantime, there are eventually two record-updated notifications and two
\* stored records with status processed, each with the category of its
\* folder, and with distinct ids.
C18_EndToEndScan == ScanOfTwoNew ~> (TwoProcessed \/ faults > 0 \/ fsops > 0)

\* the scan of the two folders has run to its end with no failure
C18_Witness ==
    /\ TwoProcessed
    /\ faults = 0 /\ fsops = 0
    /\ ntasks = 2
    /\ \A t \in 1 .. 2 : tasks[t].origin = "scan" /\ tasks[t].pc = "done" /\ tasks[t].outcome = "ok"

\* task t has run the text extractor or the remote extractor for the version
\* (fingerprint, modified-time) it read of its path
ExtractedVersion(t) ==
    /\ tasks[t].file_hash # << >>
    /\ tasks[t].file_modified_at # << >>
    /\ tasks[t].text_calls + tasks[t].ai_calls > 0

\* C19: over all the invocations of process_invoice for a path, the
\* extraction collaborators run at most once for one (fingerprint,
\* modified-time) pair of the file: no invocation runs one of them twice, and
\* no two invocations run them for the same pair of the same path.
C19_ExactlyOncePerVersion ==
    /\ \A t \in TaskIds : tasks[t].text_calls <= 1 /\ tasks[t].ai_calls <= 1
    /\ \A t \in TaskIds : \A u \in TaskIds \ {t} :
          ( /\ tasks[t].path = tasks[u].path
            /\ tasks[t].file_hash = tasks[u].file_hash
            /\ tasks[t].file_modified_at = tasks[u].file_modified_at
            /\ ExtractedVersion(t) )
          => ~ExtractedVersion(u)

\* no call of update_settings is under way: each has returned or not begun
NoUpdateUnderWay == \A c \in CallIds : calls[c].pc \in {"idle", "done"}

\* C20: the settings a task reads for its processing (OCR language and
\* credential) are the settings that were in force when the task was
\* dispatched, also when calls of update_settings have completed between
\* the dispatch and the task's first step.
C20_SnapshotAtDispatch ==
    [][\A t \in TaskIds :
          (tasks[t].pc = "start" /\ tasks'[t].pc # "start" /\ NoUpdateUnderWay)
              => tasks'[t].settings = tasks[t].dispatched]_vars

\* in this step the run of task t reads the record of its path, the file being
\* there again, and finds it missing
FindsMissing(t) ==
    /\ tasks[t].pc = "lookup"
    /\ FileAt(tasks[t].path).exists
    /\ tasks'[t].existing # << >>
    /\ tasks'[t].existing[1].ingestion_status = "missing"

\* C21: a processing run that finds the record of its path with status
\* missing, the file being there again, goes on to the intermediate write,
\* and that write stores the record with status pending: the run does not
\* end leaving the record missing.
C21_LeavingMissing ==
    [][\A t \in TaskIds :
          /\ FindsMissing(t) => tasks'[t].pc = "pending"
          /\ ( /\ tasks[t].pc = "pending"
               /\ tasks[t].existing # << >>
               /\ tasks[t].existing[1].ingestion_status = "missing"
               /\ tasks'[t].writes = tasks[t].writes + 1 )
             => \E r \in invoices' :
                   r.id = tasks[t].existing[1].id /\ r.ingestion_status = "pending"]_vars

\* a text of one of the five forms: digits and separators at the places of
\* YYYY-MM-DD, YYYY/MM/DD, YYYY.MM.DD, DD.MM.YYYY or DD/MM/YYYY
HasForm(t) ==
    /\ Len(t) = 10
    /\ \/ /\ t[5] \in {"-", "/", "."} /\ t[8] = t[5]
          /\ \A i \in {1, 2, 3, 4, 6, 7, 9, 10} : IsDigit(t[i])
       \/ /\ t[3] \in {".", "/"} /\ t[6] = t[3]
          /\ \A i \in {1, 2, 4, 5, 7, 8, 9, 10} : IsDigit(t[i])

\* the canonical spelling of a text that has one of the forms
Canonical(t) ==
    IF IsDigit(t[3])
    THEN SubSeq(t, 1, 4) \o << "-" >> \o SubSeq(t, 6, 7) \o << "-" >> \o SubSeq(t, 9, 10)
    ELSE SubSeq(t, 7, 10) \o << "-" >> \o SubSeq(t, 4, 5) \o << "-" >> \o SubSeq(t, 1, 2)

\* the text names a day of the calendar
IsCalendarDate(t) ==
    LET c == Canonical(t)
    IN  ValidDate(NumberOf(SubSeq(c, 1, 4)), NumberOf(SubSeq(c, 6, 7)), NumberOf(SubSeq(c, 9, 10)))

\* C23: normalize_date turns a date written in one of the five forms into
\* its YYYY-MM-DD spelling, returns a text (here: one without blanks around
\* it) that has none of the forms as it is, and returns for its own result
\* that result again.
C23_DateNormalization ==
    (output # << >> /\ input # << >>) =>
        LET t == input[1]
        IN  /\ (HasForm(t) /\ IsCalendarDate(t)) => output[1] = << Canonical(t) >>
            /\ (~HasForm(t) /\ t # << >> /\ trim(t) = t) => output[1] = << t >>
            /\ Len(output) = 2 => output[2] = output[1]

\* 1 when the field is present, 0 when it is absent
Present(o) == IF o = << >> THEN 0 ELSE 1

\* C22: when the accepted answer carries no confidence score, the stored
\* confidence is 0.4, plus 0.1 for each of invoice number, invoice date,
\* counterparty and total amount that is present, plus 0.05 when tax or net
\* amount is present (as an f64, so within one unit in the last place of
\* that decimal), and lies in [0,1]; with number, date and amount present
\* and counterparty, tax and net absent it is the f64 0.7; the score handed
\* to apply_extracted is never absent.
C22_DefaultConfidence ==
    (output.pc = "applied" /\ output.raw[1].data.confidence_score = << >>) =>
        LET d == output.raw[1].data
            got == output.columns[1].confidence_score
        IN  /\ got.c = 40 + 10 * (Present(d.invoice_number) + Present(d.invoice_date)
                                    + Present(d.counterparty_name) + Present(d.total_amount))
                          + 5 * (IF d.tax_amount # << >> \/ d.net_amount # << >> THEN 1 ELSE 0)
            /\ got.off \in {0 - 1, 0, 1}
            /\ got.c >= 0 /\ got.c <= 100
            /\ ( /\ d.invoice_number # << >> /\ d.invoice_date # << >> /\ d.total_amount # << >>
                 /\ d.counterparty_name = << >> /\ d.tax_amount = << >> /\ d.net_amount = << >> )
               => got = [c |-> 70, off |-> 0]
            /\ output.result[1].confidence_score # << >>

\* an answer without a score, with number, date and amount and nothing else,
\* has been applied and stored as 0.7
C22_Witness ==
    /\ output.pc = "applied"
    /\ output.raw[1].data.confidence_score = << >>
    /\ output.raw[1].data.invoice_number # << >>
    /\ output.raw[1].data.invoice_date # << >>
    /\ output.raw[1].data.total_amount # << >>
    /\ output.raw[1].data.counterparty_name = << >>
    /\ output.raw[1].data.tax_amount = << >>
    /\ output.raw[1].data.net_amount = << >>
    /\ output.columns[1].confidence_score = [c |-> 70, off |-> 0]

\* the invocation has returned
Returned == output.pc \in {"done", "applied"}

\* C30: an invocation of extract_invoice_data makes at most two remote
\* calls; it makes the second only after a first answer that is JSON the
\* schema rejects; when the second answer is rejected too it fails with the
\* validation error; when a call fails or its answer is no JSON it fails
\* with no further call; and the fields it returns are those of an answer
\* the schema accepts, the last one it received.
C30_OneCorrectiveRetry ==
    /\ output.n <= 2
    /\ output.n = 2 => input[1].kind = "invalid"
    /\ (output.pc = "retry") => (output.n = 1 /\ input[1].kind = "invalid")
    /\ (Returned /\ input[1].kind \in {"error", "text"}) =>
            (output.n = 1 /\ output.result = << >> /\ output.err # "")
    /\ (Returned /\ output.n = 2 /\ input[2].kind \in {"error", "text"}) =>
            (output.result = << >> /\ output.err \notin {"", "JSON validation failed"})
    /\ (Returned /\ output.n = 2 /\ input[2].kind = "invalid") =>
            (output.result = << >> /\ output.err = "JSON validation failed")
    /\ (Returned /\ output.result # << >>) =>
            /\ output.err = ""
            /\ input[output.n].kind = "valid"
            /\ output.raw = << input[output.n] >>
            /\ \A f \in {"invoice_number", "invoice_date", "counterparty_name",
                          "total_amount", "tax_amount", "net_amount"} :
                  output.result[1][f] = input[output.n].data[f]
    /\ (Returned /\ output.result = << >>) => output.err # ""

\* the first answer was rejected by the schema, the second accepted, and
\* the fields of the second were returned
C30_Witness ==
    /\ Returned
    /\ output.n = 2
    /\ input[1].kind = "invalid"
    /\ input[2].kind = "valid"
    /\ output.result # << >>
    /\ output.result[1].invoice_number = << "R-1" >>
    /\ output.raw = << input[2] >>

\* the record of task t's run is stored as pending with the fingerprint and
\* modified-time the run has read
PendingStored(t, tbl) ==
    \E r \in tbl :
        /\ r.id = tasks'[t].invoice[1].id
        /\ r.ingestion_status = "pending"
        /\ r.file_hash = tasks'[t].file_hash[1]
        /\ r.file_modified_at = tasks'[t].file_modified_at[1]

\* C24: a run of process_invoice that does not short-circuit stores its
\* record as pending with the new fingerprint and modified-time before the
\* text extraction starts; a step after that write in which the run fails
\* writes nothing to the store, so the run has written once and only the
\* pending record; and no step of process_invoice writes status failed.
C24_IntermediateWrite ==
    [][\A t \in TaskIds :
          /\ (tasks[t].pc = "pending" /\ tasks'[t].pc = "text") =>
                (PendingStored(t, invoices') /\ tasks'[t].writes = 1 /\ tasks'[t].text_calls = 0)
          /\ (tasks'[t].text_calls > 0) => tasks'[t].writes >= 1
          /\ (tasks[t].pc \in {"text", "final"} /\ FailsNow(t)) =>
                (invoices' = invoices /\ logs' = logs /\ tasks'[t].writes = 1)
          /\ (tasks[t].pc \in {"start", "mtime", "lookup", "pending", "text", "final"}
                /\ tasks'[t] # tasks[t]) =>
                \A r \in invoices' \ invoices : r.ingestion_status # "failed"]_vars

\* C25: when the sampling period of a changed event ends, every event that
\* was already queued when it began has been taken off the channel and
\* handled by the dispatch loop.
C25_DebounceDoesNotBlock ==
    [][(loop.pc = "debounce" /\ loop'.pc = "recv") => fsops' - Len(channel') >= loop.due]_vars

\* the notification of the finished task t is among those published
Published(t) ==
    \E i \in DOMAIN emitted :
        emitted[i] = IF tasks[t].outcome = "ok"
                     THEN InvoiceUpdated(Unwrap(tasks[t].invoice))
                     ELSE ProcessingError(tasks[t].err)

\* a step of a call of update_settings or restart_watchers
CallStep == calls' # calls

\* C26: every task that has been spawned reaches its end, with the result
\* process_invoice returned (success or failure) and with its notification
\* published; a task that went as far as the remote extraction and succeeded
\* has made its final write; and no step of a settings update or a watcher
\* restart touches a task, the store, the log or the notifications.
C26_NoCancellation ==
    /\ <>[](\A t \in TaskIds : tasks[t].pc \in {"unspawned", "done"})
    /\ [][\A t \in TaskIds : tasks[t].pc # "unspawned" => tasks'[t].pc # "unspawned"]_vars
    /\ [](\A t \in TaskIds :
            tasks[t].pc = "done" =>
                /\ tasks[t].outcome \in {"ok", "err"}
                /\ Published(t)
                /\ (tasks[t].outcome = "ok" /\ tasks[t].ai_calls = 1) => tasks[t].writes = 2)
    /\ [][CallStep => /\ tasks' = tasks
                      /\ invoices' = invoices
                      /\ logs' = logs
                      /\ emitted' = emitted]_vars

\* a task was spawned, the settings were changed and the watchers restarted
\* after that, and the task has made its final write and published its record
C26_Witness ==
    \E t \in TaskIds :
        /\ tasks[t].pc = "done" /\ tasks[t].outcome = "ok" /\ tasks[t].writes = 2
        /\ Unwrap(tasks[t].dispatched) # settings
        /\ \E c \in CallIds : calls[c].pc = "done" /\ calls[c].kind = "update"
        /\ \A c \in CallIds : calls[c].pc \in {"idle", "done"}
        /\ Unwrap(tasks[t].invoice) \in invoices
        /\ Published(t)

\* C27: at most one store operation is in progress at any time, and a
\* thread that is inside a block of store operations (of process_invoice, of
\* the Err arm with mark_failed, of the Deleted arm, of the command) holds
\* the store lock for as long as it is there.
C27_StoreMutualExclusion ==
    /\ Cardinality(db.active) <= 1
    /\ \A u \in StoreUsers : users[u].pc \in {"held", "busy"} => db.holder = u
    /\ \A u \in db.active : users[u].pc = "busy"

\* a task is in the middle of its final write while the other task, the
\* dispatch loop with a deleted event and the command all wait for the lock
C27_Witness ==
    /\ users["task1"].pc = "busy" /\ users["task1"].site = "final"
    /\ db.active = {"task1"}
    /\ users["task2"].pc = "lock" /\ users["task2"].site = "pending"
    /\ users["loop"].pc = "lock" /\ users["loop"].site = "deleted"
    /\ users["command"].pc = "lock" /\ users["command"].site = "get_by_id"

\* thread u fails to take the store lock in this step
LockFails(u) == users[u].pc = "lock" /\ db.poisoned /\ users'[u] # users[u]

\* C28: a step in which process_invoice, mark_failed or the Deleted arm of
\* handle_event fails to take the store lock writes nothing to the store,
\* and the failure comes out of it as an error: the operation returns the
\* lock error to its caller or an error notification is published, and no
\* notification of a completed change (invoice-missing, invoice-updated) is.
C28_LockFailureSurfaces ==
    [][\A u \in StoreUsers :
          (LockFails(u) /\ users[u].site \in {"lookup", "pending", "final", "mark_failed", "deleted"})
              => /\ db' = db /\ invoices' = invoices /\ logs' = logs
                 /\ \/ users'[u].result = LockMessage(users[u].site)
                    \/ users'[u].marked = LockMessage(users[u].site)
                    \/ users'[u].event = "processing-error"
                 /\ users'[u].event \notin {"invoice-missing", "invoice-updated"}]_vars

\* the messages of a credential that is absent or cannot be fetched
CredentialErrors == {CredentialError([settings |-> Some(Settings(None))], TRUE),
                     CredentialError([settings |-> Some(Settings(Some(KeychainRef)))], FALSE)}

\* this step is one of the run of watcher task t that fails for its credential
CredentialRun(t) ==
    /\ tasks[t].origin = "watcher"
    /\ tasks'[t] # tasks[t]
    /\ tasks'[t].outcome = "err"
    /\ tasks'[t].err \in CredentialErrors

\* nothing but the credential has failed up to the end of this step
OnlyCredentialFails(t) ==
    faults' = IF tasks'[t].err = CredentialError([settings |-> Some(Settings(None))], TRUE)
              THEN 0 ELSE 1

\* C29: a watcher task that fails for its credential (absent, or not to be
\* fetched) has made the intermediate write and no structured-extraction
\* call; when it ends, nothing else having failed, a record of its file has
\* status failed, the log holds a failed entry with the credential error's
\* message for that record, and its last publication is the processing-error
\* notification with that message; and none of its steps touches another
\* task, the dispatch loop or the event channel.
C29_CredentialFailure ==
    [][\A t \in TaskIds :
          (CredentialRun(t) /\ OnlyCredentialFails(t)) =>
              /\ tasks'[t].writes = 1
              /\ tasks'[t].ai_calls = 0
              /\ \A u \in TaskIds \ {t} : tasks'[u] = tasks[u]
              /\ loop' = loop /\ channel' = channel /\ ntasks' = ntasks
              /\ tasks'[t].pc = "done" =>
                    /\ \E r \in RowsOf(invoices', tasks[t].path) :
                          /\ r.ingestion_status = "failed"
                          /\ \E i \in DOMAIN logs' :
                                /\ logs'[i].invoice_id = r.id
                                /\ logs'[i].status = "failed"
                                /\ logs'[i].message = Some(tasks[t].err)
                    /\ emitted' = Append(emitted, ProcessingError(tasks[t].err))]_vars

\* a watcher task has failed for its missing credential and its record is
\* marked failed and logged, while a task for the other folder's file is
\* still in flight
C29_Witness ==
    \E t \in TaskIds : \E u \in TaskIds \ {t} :
        /\ tasks[t].origin = "watcher" /\ tasks[t].pc = "done"
        /\ tasks[t].err \in CredentialErrors
        /\ tasks[t].writes = 1 /\ tasks[t].ai_calls = 0 /\ tasks[t].marked
        /\ \E r \in RowsOf(invoices, tasks[t].path) : r.ingestion_status = "failed"
        /\ \E i \in DOMAIN logs : logs[i].status = "failed" /\ logs[i].message = Some(tasks[t].err)
        /\ \E i \in DOMAIN emitted : emitted[i] = ProcessingError(tasks[t].err)
        /\ tasks[u].path # tasks[t].path
        /\ tasks[u].pc \notin {"unspawned", "done"}

\* C35: when the lookup of process_invoice, from whichever entry point,
\* finds a record with status pending or failed whose fingerprint and
\* modified-time equal the file's, the call ends in that step returning that
\* record: no text extraction, no structured extraction, no write, and the
\* record stays in the store as it was, still pending or failed.
C35_NoRetryWhileUnchanged ==
    [][\A t \in TaskIds :
          LET tk == tasks[t]
              tk2 == tasks'[t]
          IN  ( /\ tk.pc = "lookup"
                /\ IsSome(tk2.existing)
                /\ Unwrap(tk2.existing).ingestion_status \in {"pending", "failed"}
                /\ Unwrap(tk2.existing).file_hash = sha256_hex(FileAt(tk.path).content)
                /\ Unwrap(tk2.existing).file_hash = Unwrap(tk.file_hash)
                /\ Unwrap(tk2.existing).file_modified_at = Unwrap(tk.file_modified_at) )
              => /\ tk2.pc = "done" /\ tk2.outcome = "ok"
                 /\ tk2.invoice = tk2.existing
                 /\ tk2.text_calls = 0 /\ tk2.ai_calls = 0 /\ tk2.writes = 0
                 /\ invoices' = invoices /\ logs' = logs
                 /\ \E r \in invoices' :
                       r = Unwrap(tk2.existing) /\ r.ingestion_status \in {"pending", "failed"}]_vars

\* a scan task failed after its intermediate write and left the record
\* pending; a later call on the unchanged file has returned that pending record
C35_Witness ==
    \E t \in TaskIds : \E u \in TaskIds \ {t} :
        /\ tasks[u].origin = "scan" /\ tasks[u].pc = "done" /\ tasks[u].outcome = "err"
        /\ tasks[u].writes = 1
        /\ tasks[t].path = tasks[u].path
        /\ tasks[t].pc = "done" /\ tasks[t].outcome = "ok" /\ tasks[t].writes = 0
        /\ tasks[t].ai_calls = 0 /\ tasks[t].text_calls = 0
        /\ tasks[t].invoice = tasks[u].invoice
        /\ Unwrap(tasks[t].invoice).ingestion_status = "pending"
        /\ Unwrap(tasks[t].invoice) \in invoices

\* C36: every write of process_invoice for a path that already had a record
\* stores the category that record had, whatever category the call was
\* given, and a write of a first sighting stores the category of the call.
C36_CategoryFixed ==
    [][\A t \in TaskIds :
          (tasks[t].pc \in {"pending", "final"} /\ tasks'[t].writes = tasks[t].writes + 1)
              => /\ invoices' # invoices
                 /\ \A written \in invoices' \ invoices :
                       /\ written.file_path = Some(to_string_lossy(tasks[t].path))
                       /\ IF IsSome(tasks[t].existing)
                          THEN /\ written.id = Unwrap(tasks[t].existing).id
                               /\ written.category = Unwrap(tasks[t].existing).category
                          ELSE written.category = tasks[t].category]_vars

\* a scan of a folder now configured as the other category has reprocessed
\* a changed file that had a record: the record still has its old category
C36_Witness ==
    \E t \in TaskIds :
        /\ tasks[t].pc = "done" /\ tasks[t].outcome = "ok" /\ tasks[t].writes = 2
        /\ IsSome(tasks[t].existing)
        /\ tasks[t].category # Unwrap(tasks[t].existing).category
        /\ Unwrap(tasks[t].invoice) \in invoices
        /\ Unwrap(tasks[t].invoice).category = Unwrap(tasks[t].existing).category
        /\ Unwrap(tasks[t].invoice).file_hash # Unwrap(tasks[t].existing).file_hash

\* C33: a thread holds the store lock only inside a block of store
\* operations (a task: the lookup, the intermediate upsert, the final upsert
\* with its log append, and the error arm's lookup and mark_failed); while it
\* computes the fingerprint and modified-time, extracts the text, resolves
\* the credential and calls the remote extraction, or samples a file's size
\* for the debounce, it holds no lock and runs no store operation.
C33_NoLockAcrossSlowSteps ==
    \A u \in StoreUsers :
        /\ users[u].pc \in {"slow", "lock", "out", "end"} => (db.holder # u /\ u \notin db.active)
        /\ db.holder = u => StoreOps(users[u].site) # << >>

\* one task is in its extraction, holding nothing, while the dispatch loop
\* is inside mark_invoice_missing for a deleted event and the other task
\* and the command have come to their lookups and wait for the lock
C33_Witness ==
    /\ users["task1"].site = "extraction" /\ users["task1"].pc = "slow"
    /\ users["loop"].site = "deleted" /\ users["loop"].pc = "busy"
    /\ db.holder = "loop"
    /\ users["task2"].site = "lookup" /\ users["task2"].pc = "lock"
    /\ users["command"].site = "get_by_id" /\ users["command"].pc = "lock"

\* the events a thread has been sent: those it has handled and those waiting
EventsOf(r) == r.handled \cup {r.queue[i] : i \in DOMAIN r.queue}

\* C34: every successful restart_watchers has a channel and a consumer
\* thread of its own; at any time at most one thread is attached to a
\* channel that still has a sender; a thread ends only with an empty queue
\* and no sender left, is not sent anything afterwards and loses none of the
\* events it was sent; and every thread whose watcher set was dropped (or
\* was empty from the start) ends after the events queued for it.
C34_ConsumersTerminate ==
    /\ [](Cardinality({c \in ThreadIds : Senders(c) # {}}) <= 1)
    /\ [](\A c \in ThreadIds :
            /\ Senders(c) # {} => threads[c].state = "running"
            /\ threads[c].state = "ended" => threads[c].queue = << >>)
    /\ [][\A c \in ThreadIds :
            /\ EventsOf(threads[c]) \subseteq EventsOf(threads'[c])
            /\ threads[c].state = "ended" => threads'[c] = threads[c]
            /\ (threads[c].state = "running" /\ threads'[c].state = "ended")
                  => threads[c].queue = << >> /\ Senders(c) = {}
            /\ (threads[c].state = "none" /\ threads'[c].state # "none")
                  => /\ threads'[c] = NewThread
                     /\ calls'[c].result = "ok"
                     /\ watcher'.slot = Some(WatcherSet(c, Senders(c)'))]_vars
    /\ <>[](\A c \in ThreadIds : threads[c].state = "running" => Senders(c) # {})

\* the thread of the first restart has handled the event that was queued
\* when its watcher set was dropped and has ended; the thread of the second
\* restart runs on the channel of the installed set
C34_Witness ==
    /\ threads[1].state = "ended"
    /\ threads[1].handled # {}
    /\ threads[2].state = "running"
    /\ Senders(1) = {}
    /\ Senders(2) # {}
    /\ watcher.slot = Some(WatcherSet(2, Senders(2)))

\* C37: when WatcherService::start fails inside restart_watchers, whether
\* called on its own or from update_settings, the call returns the error,
\* the watcher slot is empty and the mutex free, the set installed before
\* was released and nothing is installed, no consumer thread is spawned and
\* the settings are what they were; the stored settings change only when a
\* call of update_settings stores a value, never back on a failure.
C37_FailedRestartStops ==
    [][/\ \A c \in CallIds :
            (calls[c].pc = "start" /\ calls'[c].result = "err")
                => /\ calls'[c].pc = "done"
                   /\ watcher' = [lock |-> 0, slot |-> None]
                   /\ live = {} /\ live' = {}
                   /\ threads' = threads
                   /\ threads'[c] = NoThread
                   /\ settings' = settings
       /\ settings' # settings
            => \E c \in CallIds : calls[c].pc = "idle" /\ calls'[c].kind = "update"]_vars

\* a restart installed a set and spawned its thread; a later update_settings
\* stored another value, released that set and failed to start the new one:
\* nothing is installed, no thread was spawned for it, the new value stays
C37_Witness ==
    \E c, d \in CallIds :
        /\ calls[c].pc = "done" /\ calls[c].result = "ok" /\ threads[c].state # "none"
        /\ calls[d].kind = "update" /\ calls[d].pc = "done" /\ calls[d].result = "err"
        /\ calls[d].snapshot = Some(settings)
        /\ calls[c].snapshot # calls[d].snapshot
        /\ Watchers(Unwrap(calls[c].snapshot), dirs) # {}
        /\ watcher = [lock |-> 0, slot |-> None]
        /\ live = {}
        /\ threads[d] = NoThread

\* a processing task was spawned for the file or a watcher sent an event for it
Seen(p) ==
    \/ \E t \in 1 .. ntasks : tasks[t].path = p
    \/ \E c \in ThreadIds : \E e \in EventsOf(threads[c]) : e.path = p

\* the folder is named by one of the two folder settings
Configured(folder) == Some(folder) \in {settings.revenue_folder, settings.payable_folder}

\* setup has returned Ok: the watchers are installed and the scan has run
SetupDone ==
    /\ calls[SetupCall].kind = "setup"
    /\ calls[SetupCall].pc = "done"
    /\ calls[SetupCall].result = "ok"

\* setup has installed the watchers
Installed == calls[SetupCall].pc = "done" /\ calls[SetupCall].result = "ok"

\* C31 as stated: once setup is through, every PDF of a configured folder
\* that exists has a processing task or a watcher event.
C31_NoMissedFileInExistingFolder ==
    SetupDone =>
        \A p \in Paths :
            (fs[p].exists /\ Configured(FolderOf(p)) /\ Exists(dirs, FolderOf(p))) => Seen(p)

\* C31: the watcher set is installed before the scan of setup runs; once
\* setup is through, every PDF of a configured folder that exists and can be
\* listed has a processing task or a watcher event, whether it was there at
\* startup or was created at any moment since, and a PDF created once the
\* watchers are installed has its event at once; what was seen stays seen.
C31_NoMissedFileAtStartup ==
    /\ [](SetupDone =>
            \A p \in Paths :
                (fs[p].exists /\ Configured(FolderOf(p)) /\ dirs[FolderOf(p)] = "dir") => Seen(p))
    /\ [][/\ \A p \in Paths :
              /\ (Installed /\ ~fs[p].exists /\ fs'[p].exists /\ Configured(FolderOf(p)))
                    => Seen(p)'
              /\ Seen(p) => Seen(p)'
          /\ ntasks' # ntasks => live # {} /\ threads[SetupCall].state = "running"]_vars

\* setup is through with both folders watched: the file that was there at
\* startup has its task from the scan and no event, the file created while
\* setup ran has its event from the watcher and no task
C31_Witness ==
    /\ SetupDone
    /\ fs[GoodPath].exists /\ fs[RawPath].exists
    /\ fsops = 1
    /\ \E t \in 1 .. ntasks : tasks[t].path = GoodPath /\ tasks[t].origin = "scan"
    /\ \A c \in ThreadIds : \A e \in EventsOf(threads[c]) : e.path = RawPath
    /\ \E e \in EventsOf(threads[SetupCall]) : e.path = RawPath
    /\ \A t \in 1 .. ntasks : tasks[t].path = GoodPath

\* the thread is inside Mutex::lock
Waiting(u) == lockers[u].rest # << >> /\ Head(lockers[u].rest)[1] = "lock"

\* the lock the thread waits for
Requested(u) == Head(lockers[u].rest)[2]

\* C32: no set of threads waits for locks that only threads of the set
\* hold (a thread waiting for a lock it holds itself included); a thread
\* requests a lock only while it holds nothing, or while it holds the
\* watcher lock alone, requests the settings lock and is in
\* restart_watchers; so nothing is requested under the settings lock or
\* under the store lock, and every lock has at most one holder.
C32_DeadlockFree ==
    /\ \A D \in SUBSET LockUsers :
          D # {} => \E u \in D : ~Waiting(u) \/ Holders(Requested(u)) \ D # {} \/ Holders(Requested(u)) = {}
    /\ \A u \in LockUsers :
          /\ Waiting(u) =>
                \/ lockers[u].held = << >>
                \/ /\ lockers[u].held = << "watcher" >>
                   /\ Requested(u) = "settings"
                   /\ lockers[u].op \in {"setup", "save_settings"}
          /\ lockers[u].held \in {<< >>, << "store" >>, << "settings" >>, << "watcher" >>,
                                  << "watcher", "settings" >>}
    /\ \A l \in {"store", "settings", "watcher"} : Cardinality(Holders(l)) <= 1

\* every lock is contended at once: a save_settings holds the watcher lock
\* in restart_watchers and waits for the settings lock, which a task holds;
\* another save_settings waits for the watcher lock; the dispatch loop
\* waits for the store lock
C32_Witness ==
    /\ lockers["command"].op = "save_settings"
    /\ lockers["command"].held = << "watcher" >>
    /\ Waiting("command") /\ Requested("command") = "settings"
    /\ lockers["task1"].held = << "settings" >>
    /\ lockers["command2"].op = "save_settings"
    /\ lockers["command2"].held = << >>
    /\ Waiting("command2") /\ Requested("command2") = "watcher"
    /\ lockers["loop"].held = << >>
    /\ Waiting("loop") /\ Requested("loop") = "store"
====
